---- MODULE Spec2Model ----
(***************************************************************************)
(* A model of the fund advisor's ledger (src/portfolio_tracker.py), of its *)
(* position decision engine and of one run cycle of main with the tasks of *)
(* its worker pool (src/main.py).                                          *)
(*                                                                         *)
(* Numbers.  The program computes with Python floats.  The model keeps     *)
(* every real quantity on a fixed-point grid:                              *)
(*   - shares and money (amount_or_value, sell_val, base_amt, max_daily)   *)
(*     are integers counting units of 1/Grid;                              *)
(*   - cost is an integer counting units of 1/CostQ, which is exactly what *)
(*     round(new_cost, 4) keeps;                                           *)
(*   - multipliers (val_mult, tactical_mult) are in percent (2.0 is 200),  *)
(*     and final_mult, a product of two of them, in units of 1/10000;      *)
(*   - prices are whole currency units.                                    *)
(* A division rounds to the nearest grid point, as a float division rounds *)
(* to the nearest representable number.                                    *)
(***************************************************************************)
EXTENDS Integers, Sequences, FiniteSets, TLC

VARIABLES
    portfolio,  \* PortfolioTracker.portfolio: code -> position record
    disk,       \* the persisted document portfolio.json
    call,       \* the ledger operation that made the last step, with its arguments
    ret,        \* what that operation returned
    ncalls,     \* number of ledger operations made so far
    config,     \* config['global']: base_invest_amount, max_daily_invest
    pc,         \* where each process_single_fund task stands
    loc,        \* the local variables of each process_single_fund task
    tracker_lock, \* the task that holds tracker_lock, or "free"
    main_pc,    \* where main stands
    analyst,    \* whether main has a NewsAnalyst (TRUE) or None (FALSE)
    results,    \* main's list of collected results
    loaded      \* the ledger as PortfolioTracker() loaded it at the start of the run

ledgerVars == <<portfolio, disk, call, ret, ncalls>>

runVars == <<tracker_lock, main_pc, analyst, results, loaded>>

taskVars == <<config, pc, loc, runVars>>

vars == <<portfolio, disk, call, ret, ncalls, config, pc, loc,
          tracker_lock, main_pc, analyst, results, loaded>>

----------------------------------------------------------------------------
(* Bounds of the model *)

\* shares and money are counted in units of 1/Grid
Grid == 2

\* number of ledger operations in one behaviour
MaxOps == 3

(* Program constants *)

\* round(new_cost, 4)
CostQ == 10000

\* len(pos['history']) > 10
HistMax == 10

(* Inputs *)

Codes == {"f1", "f2"}

NameOf(code) == IF code = "f1" THEN "Fund One" ELSE "Fund Two"

\* amount_or_value, in units of 1/Grid: 0, 1 and 3 currency units
Amounts == {0, Grid, 3 * Grid}

Prices == {-1, 0, 1, 2}

\* how a write of the document ends: written, open() raised (document left
\* as it was), or the dump was cut short after open() truncated the file
SaveOutcomes == {"ok", "fail", "torn"}

----------------------------------------------------------------------------
(* Arithmetic helpers *)

Min(a, b) == IF a <= b THEN a ELSE b

Max(a, b) == IF a >= b THEN a ELSE b

\* n / d rounded to the nearest integer (n >= 0, d > 0)
RoundDiv(n, d) == (2 * n + d) \div (2 * d)

\* int(x) of a non-negative value x given in units of 1/q
IntOf(x, q) == x \div q

\* LastN that keeps the oldest n records
LastN_Oldest(s, n) == IF Len(s) > n THEN SubSeq(s, 1, n) ELSE s

\* s[-n:]
LastN(s, n) == IF Len(s) > n THEN SubSeq(s, Len(s) - n + 1, Len(s)) ELSE s

----------------------------------------------------------------------------
(* The ledger: src/portfolio_tracker.py *)

EmptyPortfolio == [c \in {} |-> 0]

NoCall == [op |-> "init", code |-> "", amount |-> 0, price |-> 0, is_sell |-> FALSE]

NoRet == [kind |-> "none"]

\* the record add_trade creates for a code it does not know
NewPos(name) ==
    [name |-> name, shares |-> 0, cost |-> 0, held_days |-> 0, history |-> <<>>]

\* _save_portfolio: the document after a write of ledger p over document d
SavePortfolio(p, d, outcome) ==
    CASE outcome = "ok" -> [complete |-> TRUE, doc |-> p]
      [] outcome = "fail" -> d
      [] OTHER -> [complete |-> FALSE, doc |-> EmptyPortfolio]

\* get_position
GetPosition(p, code) ==
    IF code \notin DOMAIN p
    THEN [shares |-> 0, cost |-> 0, held_days |-> 0]
    ELSE [shares |-> p[code].shares, cost |-> p[code].cost,
          held_days |-> p[code].held_days]

\* get_signal_history
GetSignalHistory(p, code) ==
    IF code \in DOMAIN p THEN p[code].history ELSE <<>>

\* shares_change = amount_or_value / price
SharesChange(amount, price) == RoundDiv(amount, price)

\* real_sell_shares = min(pos['shares'], shares_change)
RealSellShares(shares, shares_change) == Min(shares, shares_change)

\* SellPos with neither the min nor the max: the sale is not clamped to the holding
SellPos_Unclamped(pos, amount, price) ==
    LET shares_change == SharesChange(amount, price)
        shares == pos.shares - shares_change
        record == [price |-> price, s |-> "S",
                   amt |-> 0 - IntOf(shares_change * price, Grid)]
    IN  [pos EXCEPT !.shares = shares,
                    !.cost = IF shares = 0 THEN 0 ELSE @,
                    !.held_days = IF shares = 0 THEN 0 ELSE @,
                    !.history = Append(@, record)]

\* the sell branch of add_trade
SellPos(pos, amount, price) ==
    LET real_sell_shares == RealSellShares(pos.shares, SharesChange(amount, price))
        shares == Max(0, pos.shares - real_sell_shares)
        record == [price |-> price, s |-> "S",
                   amt |-> 0 - IntOf(real_sell_shares * price, Grid)]
    IN  [pos EXCEPT !.shares = shares,
                    !.cost = IF shares = 0 THEN 0 ELSE @,
                    !.held_days = IF shares = 0 THEN 0 ELSE @,
                    !.history = Append(@, record)]

\* BuyPos that takes the price of the last buy as the cost
BuyPos_LastPrice(pos, amount, price) ==
    LET shares_change == SharesChange(amount, price)
        total_shares == pos.shares + shares_change
        record == [price |-> price, s |-> "B", amt |-> IntOf(amount, Grid)]
    IN  [pos EXCEPT !.shares = total_shares,
                    !.cost = IF total_shares > 0 THEN price * CostQ ELSE @,
                    !.held_days = IF @ = 0 THEN 1 ELSE @,
                    !.history = Append(@, record)]

\* the buy branch of add_trade
BuyPos(pos, amount, price) ==
    LET shares_change == SharesChange(amount, price)
        old_value == pos.shares * pos.cost
        new_invest == shares_change * price
        total_shares == pos.shares + shares_change
        record == [price |-> price, s |-> "B", amt |-> IntOf(amount, Grid)]
    IN  [pos EXCEPT !.shares = total_shares,
                    !.cost = IF total_shares > 0
                             THEN RoundDiv(old_value + new_invest * CostQ, total_shares)
                             ELSE @,
                    !.held_days = IF @ = 0 THEN 1 ELSE @,
                    !.history = Append(@, record)]

\* TradedPortfolio that writes back the traded position alone
TradedPortfolio_Alone(p, code, name, amount, price, is_sell) ==
    LET pos == IF code \in DOMAIN p THEN p[code] ELSE NewPos(name)
        traded == IF is_sell THEN SellPos(pos, amount, price)
                             ELSE BuyPos(pos, amount, price)
        new == [traded EXCEPT !.history = LastN(@, HistMax)]
    IN  [c \in {code} |-> new]

\* the ledger after add_trade(code, name, amount, price, is_sell), price > 0
TradedPortfolio(p, code, name, amount, price, is_sell) ==
    LET pos == IF code \in DOMAIN p THEN p[code] ELSE NewPos(name)
        traded == IF is_sell THEN SellPos(pos, amount, price)
                             ELSE BuyPos(pos, amount, price)
        new == [traded EXCEPT !.history = LastN(@, HistMax)]
    IN  [c \in DOMAIN p \cup {code} |-> IF c = code THEN new ELSE p[c]]

\* ConfirmedPortfolio that ages the positions without shares too
ConfirmedPortfolio_AgesAll(p) ==
    [c \in DOMAIN p |-> [p[c] EXCEPT !.held_days = @ + 1]]

\* the ledger after confirm_trades
ConfirmedPortfolio(p) ==
    [c \in DOMAIN p |->
        IF p[c].shares > 0 THEN [p[c] EXCEPT !.held_days = @ + 1] ELSE p[c]]

\* AddTradeStep with the price check placed after the record of an unknown
\* code is created
AddTradeStep_LateGuard(code, name, amount, price, is_sell, outcome) ==
    IF price <= 0
    THEN /\ portfolio' = [c \in DOMAIN portfolio \cup {code} |->
                            IF c \in DOMAIN portfolio THEN portfolio[c] ELSE NewPos(name)]
         /\ disk' = disk
    ELSE /\ portfolio' = TradedPortfolio(portfolio, code, name, amount, price, is_sell)
         /\ disk' = SavePortfolio(portfolio', disk, outcome)

\* add_trade as one step on the ledger and its document
AddTradeStep(code, name, amount, price, is_sell, outcome) ==
    IF price <= 0
    THEN UNCHANGED <<portfolio, disk>>
    ELSE /\ portfolio' = TradedPortfolio(portfolio, code, name, amount, price, is_sell)
         /\ disk' = SavePortfolio(portfolio', disk, outcome)

AddTrade(code, amount, price, is_sell, outcome) ==
    /\ ncalls < MaxOps
    /\ UNCHANGED taskVars
    /\ AddTradeStep(code, NameOf(code), amount, price, is_sell, outcome)
    /\ call' = [op |-> "add_trade", code |-> code, amount |-> amount,
                price |-> price, is_sell |-> is_sell]
    /\ ret' = NoRet
    /\ ncalls' = ncalls + 1

ConfirmTrades(outcome) ==
    /\ ncalls < MaxOps
    /\ UNCHANGED taskVars
    /\ portfolio' = ConfirmedPortfolio(portfolio)
    /\ disk' = SavePortfolio(portfolio', disk, outcome)
    /\ call' = [NoCall EXCEPT !.op = "confirm_trades"]
    /\ ret' = NoRet
    /\ ncalls' = ncalls + 1

\* ReadPosition with a read that ages the positions as confirm_trades does
ReadPosition_Ageing(code) ==
    /\ ncalls < MaxOps
    /\ UNCHANGED taskVars
    /\ ret' = [kind |-> "position", value |-> GetPosition(portfolio, code)]
    /\ call' = [NoCall EXCEPT !.op = "get_position", !.code = code]
    /\ ncalls' = ncalls + 1
    /\ portfolio' = ConfirmedPortfolio(portfolio)
    /\ disk' = disk

ReadPosition(code) ==
    /\ ncalls < MaxOps
    /\ UNCHANGED taskVars
    /\ ret' = [kind |-> "position", value |-> GetPosition(portfolio, code)]
    /\ call' = [NoCall EXCEPT !.op = "get_position", !.code = code]
    /\ ncalls' = ncalls + 1
    /\ UNCHANGED <<portfolio, disk>>

ReadSignalHistory(code) ==
    /\ ncalls < MaxOps
    /\ UNCHANGED taskVars
    /\ ret' = [kind |-> "history", value |-> GetSignalHistory(portfolio, code)]
    /\ call' = [NoCall EXCEPT !.op = "get_signal_history", !.code = code]
    /\ ncalls' = ncalls + 1
    /\ UNCHANGED <<portfolio, disk>>

\* record_signal: pass
RecordSignal(code) ==
    /\ ncalls < MaxOps
    /\ UNCHANGED taskVars
    /\ ret' = NoRet
    /\ call' = [NoCall EXCEPT !.op = "record_signal", !.code = code]
    /\ ncalls' = ncalls + 1
    /\ UNCHANGED <<portfolio, disk>>

----------------------------------------------------------------------------
(* The decision engine: calculate_position_v13 in src/main.py *)

Tasks == {"t1", "t2", "t3"}

\* tech.get('quant_score'): the tier boundaries and the two ends
Scores == {0, 25, 26, 60, 70, 85}

CroSignals == {"PASS", "WARN", "VETO"}

\* _get_safe_default_indicators: score 0, price 0, VETO
SafeDefaultReading ==
    [quant_score |-> 0, price |-> 0, tech_cro_signal |-> "VETO",
     final_score |-> 0, ai_adjustment |-> 0, valuation_desc |-> "",
     quant_reasons |-> <<>>]

\* a reading calculate_indicators computed; final_score -1 and
\* valuation_desc "": the key is not set
ComputedReading(score, signal, price) ==
    [quant_score |-> score, price |-> price, tech_cro_signal |-> signal,
     final_score |-> -1, ai_adjustment |-> 0, valuation_desc |-> "",
     quant_reasons |-> <<>>]

Readings ==
    {SafeDefaultReading} \cup
    {ComputedReading(score, signal, 2) : score \in Scores, signal \in CroSignals}

\* ai_adj: an integer, or a value int() raises on
AiAdjs ==
    {[int |-> TRUE, v |-> v] : v \in {-1, 0, 100}} \cup {[int |-> FALSE, v |-> 0]}

AiDecisions == {"EXECUTE", "REJECT", "HOLD", "PASS"}

\* val_mult in percent
ValMults == {0, 50, 70, 80, 100, 120, 130, 150}

\* the description get_valuation_status returns with a multiplier
ValDesc(val_mult) ==
    IF val_mult > 100 THEN "undervalued"
    ELSE IF val_mult < 100 THEN "overvalued"
    ELSE "moderate"

StrategyTypes == {"core", "satellite", "dividend"}

\* base_invest_amount and max_daily_invest, in units of 1/Grid:
\* 10 with a cap of 50, of 12.5 and of 0, and a base of 0
Configs ==
    {[base_amt |-> 10 * Grid, max_daily |-> 50 * Grid],
     [base_amt |-> 10 * Grid, max_daily |-> (25 * Grid) \div 2],
     [base_amt |-> 10 * Grid, max_daily |-> 0],
     [base_amt |-> 0, max_daily |-> 50 * Grid]}

Abs(x) == IF x < 0 THEN 0 - x ELSE x

\* ai_adj_int = int(ai_adj), 0 when int() raises
AiAdjInt(ai_adj) == IF ai_adj.int THEN ai_adj.v ELSE 0

\* TacticalScore with REJECT capping the score as HOLD does instead of zeroing it
TacticalScore_RejectCaps(base_score, ai_adj_int, ai_decision) ==
    LET initial == Max(0, Min(100, base_score + ai_adj_int))
    IN  IF ai_decision \in {"REJECT", "HOLD"} /\ initial >= 60 THEN 59
        ELSE initial

\* steps 1 and 2: the clamped sum, then the CIO override
TacticalScore(base_score, ai_adj_int, ai_decision) ==
    LET initial == Max(0, Min(100, base_score + ai_adj_int))
    IN  IF ai_decision = "REJECT" THEN 0
        ELSE IF ai_decision = "HOLD" /\ initial >= 60 THEN 59
        ELSE initial

\* step 4: the tier of the tactical score, in percent
TacticalMult(tactical_score) ==
    IF tactical_score >= 85 THEN 200
    ELSE IF tactical_score >= 70 THEN 100
    ELSE IF tactical_score >= 60 THEN 50
    ELSE IF tactical_score <= 25 THEN -100
    ELSE 0

TierReason(tactical_score) ==
    IF tactical_score >= 85 THEN <<"tactical:strong">>
    ELSE IF tactical_score >= 70 THEN <<"tactical:strengthening">>
    ELSE IF tactical_score >= 60 THEN <<"tactical:stabilizing">>
    ELSE IF tactical_score <= 25 THEN <<"tactical:breakdown">>
    ELSE <<>>

\* BlendMult with the left-side scale-in open to every strategy class
BlendMult_AnyStrategy(tactical_mult, val_mult, strategy_type) ==
    IF tactical_mult > 0
    THEN IF val_mult < 50 THEN 0
         ELSE IF val_mult > 100 THEN tactical_mult * val_mult
         ELSE tactical_mult * 100
    ELSE IF tactical_mult < 0
    THEN IF val_mult > 120 THEN 0
         ELSE IF val_mult < 80 THEN tactical_mult * 150
         ELSE tactical_mult * 100
    ELSE IF val_mult >= 150 THEN 5000
         ELSE 0

\* step 5: final_mult after the valuation blend, in units of 1/10000
BlendMult(tactical_mult, val_mult, strategy_type) ==
    IF tactical_mult > 0
    THEN IF val_mult < 50 THEN 0
         ELSE IF val_mult > 100 THEN tactical_mult * val_mult
         ELSE tactical_mult * 100
    ELSE IF tactical_mult < 0
    THEN IF val_mult > 120 THEN 0
         ELSE IF val_mult < 80 THEN tactical_mult * 150
         ELSE tactical_mult * 100
    ELSE IF val_mult >= 150 /\ strategy_type \in {"core", "dividend"} THEN 5000
         ELSE 0

BlendReason(tactical_mult, val_mult, strategy_type) ==
    IF tactical_mult > 0
    THEN IF val_mult < 50 THEN <<"strategic:overvalued-brake">>
         ELSE IF val_mult > 100 THEN <<"strategic:undervalued-amplify">>
         ELSE <<>>
    ELSE IF tactical_mult < 0
    THEN IF val_mult > 120 THEN <<"strategic:bottom-lock">>
         ELSE IF val_mult < 80 THEN <<"strategic:overvalued-stop">>
         ELSE <<>>
    ELSE IF val_mult >= 150 /\ strategy_type \in {"core", "dividend"}
         THEN <<"strategic:left-side">>
         ELSE <<>>

\* RiskGate that blocks an entry on a warning as on a veto
RiskGate_WarnBlocks(final_mult, cro_signal) ==
    IF cro_signal \in {"VETO", "WARN"} /\ final_mult > 0 THEN 0 ELSE final_mult

\* RiskGate that lets a veto pass
RiskGate_Open(final_mult, cro_signal) == final_mult

\* step 6: the risk veto blocks an entry
RiskGate(final_mult, cro_signal) ==
    IF cro_signal = "VETO" /\ final_mult > 0 THEN 0 ELSE final_mult

\* LockIn with a window one day short
LockIn_SixDays(final_mult, pos) ==
    IF final_mult < 0 /\ pos.shares > 0 /\ pos.held_days < 6 THEN 0 ELSE final_mult

\* step 7: the lock-in rule
LockIn(final_mult, pos) ==
    IF final_mult < 0 /\ pos.shares > 0 /\ pos.held_days < 7 THEN 0 ELSE final_mult

\* FinalAmt without the daily cap
FinalAmt_NoCap(final_mult, base_amt, max_daily) ==
    IF final_mult > 0
    THEN Max(0, IntOf(base_amt * final_mult, Grid * 10000))
    ELSE 0

\* step 8, buy: final_amt = max(0, min(int(base_amt * final_mult), int(max_daily)))
FinalAmt(final_mult, base_amt, max_daily) ==
    IF final_mult > 0
    THEN Max(0, Min(IntOf(base_amt * final_mult, Grid * 10000), IntOf(max_daily, Grid)))
    ELSE 0

\* SellRatio without the cap at 1.0
SellRatio_NoCap(final_mult) == Abs(final_mult)

\* sell_ratio = min(abs(final_mult), 1.0), in units of 1/10000
SellRatio(final_mult) == Min(Abs(final_mult), 10000)

\* step 8, sell: sell_val = pos['shares'] * price * sell_ratio, in units of 1/Grid
SellVal(final_mult, pos, price) ==
    IF final_mult < 0
    THEN RoundDiv(pos.shares * price * SellRatio(final_mult), 10000)
    ELSE 0

Label(final_mult) ==
    IF final_mult > 0 THEN "buy" ELSE IF final_mult < 0 THEN "sell" ELSE "hold"

\* RecordedReading that writes the tactical score over quant_score
RecordedReading_OverScore(tech, tactical_score, ai_adj_int, val_desc, reasons) ==
    [tech EXCEPT !.quant_score = tactical_score,
                 !.ai_adjustment = ai_adj_int,
                 !.valuation_desc = val_desc,
                 !.quant_reasons = IF reasons # <<>> THEN reasons ELSE @]

\* step 3 and the last line: what calculate_position_v13 writes into tech
RecordedReading(tech, tactical_score, ai_adj_int, val_desc, reasons) ==
    [tech EXCEPT !.final_score = tactical_score,
                 !.ai_adjustment = ai_adj_int,
                 !.valuation_desc = val_desc,
                 !.quant_reasons = IF reasons # <<>> THEN reasons ELSE @]

\* calculate_position_v13: what it returns, the multipliers on the way, and
\* the reading as it leaves it
CalculatePositionV13(tech, ai_adj, ai_decision, val_mult, val_desc, base_amt, max_daily, pos, strategy_type) ==
    LET ai_adj_int == AiAdjInt(ai_adj)
        tactical_score == TacticalScore(tech.quant_score, ai_adj_int, ai_decision)
        tactical_mult == TacticalMult(tactical_score)
        blended == BlendMult(tactical_mult, val_mult, strategy_type)
        gated == RiskGate(blended, tech.tech_cro_signal)
        final_mult == LockIn(gated, pos)
        reasons == TierReason(tactical_score)
                   \o BlendReason(tactical_mult, val_mult, strategy_type)
                   \o (IF gated # blended THEN <<"risk:veto-entry">> ELSE <<>>)
                   \o (IF final_mult # gated THEN <<"rule:lock-in">> ELSE <<>>)
    IN  [final_amt |-> FinalAmt(final_mult, base_amt, max_daily),
         label |-> Label(final_mult),
         is_sell |-> final_mult < 0,
         sell_val |-> SellVal(final_mult, pos, tech.price),
         tactical_mult |-> tactical_mult,
         blended_mult |-> blended,
         final_mult |-> final_mult,
         tech |-> RecordedReading(tech, tactical_score, ai_adj_int, val_desc, reasons)]

----------------------------------------------------------------------------
(* The technical signal engine: src/technical_analyzer.py                  *)
(*                                                                         *)
(* A price/volume series is kept as what calculate_indicators reads of it: *)
(* its length, whether its last bar is dated on the day of the reference   *)
(* time, the minute of the day of that time, the volumes of its last five  *)
(* bars, its last close, and what the indicator library and the weekly     *)
(* resampling make of its closes (RSI rounded to 2 decimals, in units of   *)
(* 1/100; the signs of the MACD histogram and of the OBV slope; the weekly *)
(* trend).                                                                 *)

\* no series
NoData ==
    [len |-> 0, last_is_today |-> FALSE, ref_min |-> 0, volume |-> <<0, 0, 0, 0, 0>>,
     price |-> 0, rsi |-> 5000, macd_hist |-> 0, obv_slope |-> 0, trend_status |-> "Unknown"]

\* _get_safe_default_indicators, the keys the risk signal is derived from
\* included; vol_ratio in units of 1/100
SafeDefaultIndicators ==
    [computed |-> FALSE, rsi |-> 5000, vol_ratio |-> 100, trend_weekly |-> "Unknown",
     price |-> 0, quant_score |-> 0, tech_cro_signal |-> "VETO",
     tech_cro_comment |-> "system"]

\* _calculate_trade_minutes of the time t_min minutes after midnight
CalculateTradeMinutes(t_min) ==
    LET t_open_am == 9 * 60 + 30
        t_close_am == 11 * 60 + 30
        t_open_pm == 13 * 60
        t_close_pm == 15 * 60
    IN  IF t_min < t_open_am THEN 0
        ELSE IF t_open_am <= t_min /\ t_min <= t_close_am THEN t_min - t_open_am
        ELSE IF t_close_am < t_min /\ t_min < t_open_pm THEN 120
        ELSE IF t_open_pm <= t_min /\ t_min <= t_close_pm THEN 120 + (t_min - t_open_pm)
        ELSE 240

\* how the float product original_vol * multiplier is rounded where the
\* exact product is a whole number: to it, or to the float just below it
\* (13 * (240 / 26 * 0.9) is 107.99999999999999)
FloatRoundings == {"exact", "below"}

\* int(original_vol * multiplier) for the multiplier 240 / trade_mins * pct / 100
IntProduct(original_vol, trade_mins, pct, rounding) ==
    LET n == original_vol * 240 * pct
        d == trade_mins * 100
    IN  IF n % d = 0 /\ n > 0 /\ rounding = "below" THEN n \div d - 1 ELSE n \div d

\* ProjectedVolume that skips the projection in the first 16 minutes
ProjectedVolume_SixteenMinutes(data, rounding) ==
    LET trade_mins == CalculateTradeMinutes(data.ref_min)
        original_vol == data.volume[5]
    IN  IF data.last_is_today /\ data.ref_min < 15 * 60 /\ trade_mins > 16
        THEN IF trade_mins < 120
             THEN IntProduct(original_vol, trade_mins, 90, rounding)
             ELSE IntProduct(original_vol, trade_mins, 105, rounding)
        ELSE original_vol

\* lines 107-126: the volume of the last bar after the projection,
\* int(original_vol * multiplier) where it is projected
ProjectedVolume(data, rounding) ==
    LET trade_mins == CalculateTradeMinutes(data.ref_min)
        original_vol == data.volume[5]
    IN  IF data.last_is_today /\ data.ref_min < 15 * 60 /\ trade_mins > 15
        THEN IF trade_mins < 120
             THEN IntProduct(original_vol, trade_mins, 90, rounding)
             ELSE IntProduct(original_vol, trade_mins, 105, rounding)
        ELSE original_vol

\* 5 * ma_vol_5: the sum of the last five volumes
SumVol5(volume) == volume[1] + volume[2] + volume[3] + volume[4] + volume[5]

\* vol_ratio < num/100, where vol_ratio = volume.iloc[-1] / ma_vol_5 if ma_vol_5 > 0 else 1.0
VolRatioBelow(volume, num) ==
    IF SumVol5(volume) > 0 THEN volume[5] * 5 * 100 < num * SumVol5(volume) ELSE 100 < num

\* vol_ratio > num/100
VolRatioAbove(volume, num) ==
    IF SumVol5(volume) > 0 THEN volume[5] * 5 * 100 > num * SumVol5(volume) ELSE 100 > num

\* round(vol_ratio, 2), in units of 1/100
RoundedVolRatio(volume) ==
    IF SumVol5(volume) > 0 THEN RoundDiv(volume[5] * 5 * 100, SumVol5(volume)) ELSE 100

\* step 7: the score
QuantScore(rsi, macd_hist, trend_status, volume, obv_slope) ==
    LET score == 50
                 + (IF rsi < 3000 THEN 15 ELSE 0)
                 - (IF rsi > 7000 THEN 10 ELSE 0)
                 + (IF macd_hist > 0 THEN 10 ELSE 0)
                 + (IF trend_status = "UP" THEN 20 ELSE 0)
                 + (IF VolRatioAbove(volume, 120) THEN 5 ELSE 0)
                 - (IF VolRatioBelow(volume, 60) THEN 15 ELSE 0)
                 + (IF obv_slope > 0 THEN 10 ELSE 0)
    IN  Max(0, Min(100, score))

\* rule A: the weekly trend
RuleWeekly(s, trend_status) ==
    IF trend_status = "DOWN" /\ s.level < 1
    THEN [level |-> 1, signal |-> "WARN", reason |-> "weekly-down"]
    ELSE s

\* rule B: liquidity
RuleLiquidity(s, volume) ==
    IF VolRatioBelow(volume, 60) /\ s.level < 3
    THEN [level |-> 3, signal |-> "VETO", reason |-> "liquidity"]
    ELSE s

\* RuleRsi that fires whatever level the earlier rules have set
RuleRsi_Overwrites(s, rsi) ==
    IF rsi > 8500
    THEN [level |-> 3, signal |-> "VETO", reason |-> "overbought"]
    ELSE s

\* rule C: RSI
RuleRsi(s, rsi) ==
    IF rsi > 8500 /\ s.level < 3
    THEN [level |-> 3, signal |-> "VETO", reason |-> "overbought"]
    ELSE s

\* step 8: the risk signal and its reason
CroSignal(trend_status, volume, rsi) ==
    LET s0 == [level |-> 0, signal |-> "PASS", reason |-> "normal"]
    IN  RuleRsi(RuleLiquidity(RuleWeekly(s0, trend_status), volume), rsi)

\* the series after lines 88-130: only the last volume may have changed
ProjectedData(data, rounding) ==
    [data EXCEPT !.volume[5] = ProjectedVolume(data, rounding)]

\* the indicators of a series of 30 bars or more, when no step raises
ComputedIndicators(data, rounding) ==
    LET df == ProjectedData(data, rounding)
        cro == CroSignal(df.trend_status, df.volume, df.rsi)
    IN  [computed |-> TRUE, rsi |-> df.rsi, vol_ratio |-> RoundedVolRatio(df.volume),
         trend_weekly |-> df.trend_status, price |-> df.price,
         quant_score |-> QuantScore(df.rsi, df.macd_hist, df.trend_status, df.volume,
                                    df.obv_slope),
         tech_cro_signal |-> cro.signal, tech_cro_comment |-> cro.reason]

\* how the indicator library ends: it returns, or it raises
LibraryOutcomes == {"ok", "raised"}

\* the reading process_single_fund is handed: the keys of the indicators
\* the decision engine reads
ReadingOf(ind) ==
    IF ind.computed
    THEN ComputedReading(ind.quant_score, ind.tech_cro_signal, ind.price)
    ELSE SafeDefaultReading

----------------------------------------------------------------------------
(* Bounded retry: the decorator of src/utils.py                            *)
(*                                                                         *)
(* What the wrapped function does on its successive invocations is given   *)
(* as a sequence: for each invocation, whether it raises, and else the     *)
(* value it returns.                                                       *)

\* largest retry count of a wrapped call
MaxRetries == 3

RECURSIVE RetryFrom_Swallows(_, _, _, _)
\* RetryFrom that returns None after the last failure instead of raising
RetryFrom_Swallows(i, retries, attempts, none) ==
    IF i >= retries
    THEN [calls |-> i, status |-> "none", value |-> none]
    ELSE IF ~attempts[i + 1].raises
    THEN [calls |-> i + 1, status |-> "returned", value |-> attempts[i + 1].value]
    ELSE IF i = retries - 1
    THEN [calls |-> i + 1, status |-> "none", value |-> none]
    ELSE RetryFrom_Swallows(i + 1, retries, attempts, none)

RECURSIVE RetryFrom(_, _, _, _)
\* the loop of the wrapper from iteration i on: for i in range(retries), try
\* return func(...), except: raise on the last iteration, else sleep and go
\* on; a loop that ends without a call returns None.  calls counts the
\* invocations made; value is none unless status is "returned".
RetryFrom(i, retries, attempts, none) ==
    IF i >= retries
    THEN [calls |-> i, status |-> "none", value |-> none]
    ELSE IF ~attempts[i + 1].raises
    THEN [calls |-> i + 1, status |-> "returned", value |-> attempts[i + 1].value]
    ELSE IF i = retries - 1
    THEN [calls |-> i + 1, status |-> "raised", value |-> none]
    ELSE RetryFrom(i + 1, retries, attempts, none)

\* retry(retries, delay)(func)(...)
Retry(retries, attempts, none) == RetryFrom(0, retries, attempts, none)

----------------------------------------------------------------------------
(* The valuation lookup: src/valuation_engine.py                           *)

\* index_name of a fund: none, one INDEX_MAP does not list, an A-share
\* index, a Hong Kong and a US index
IndexNames == {"", "unlisted", "csi300", "hstech", "ndx100"}

\* INDEX_MAP, by the market prefix of the code
IndexMap ==
    [csi300 |-> "sh", hstech |-> "hk", ndx100 |-> "us"]

\* None in the place of a series
NoneSeries == [kind |-> "none", len |-> 0, low |-> 0, high |-> 0, current |-> 0]

\* a series of closes: its length, and the minimum, the maximum and the
\* last value of its last 1250 closes
Series(len, low, high, current) ==
    [kind |-> "series", len |-> len, low |-> low, high |-> high, current |-> current]

\* a series get_valuation_status cannot compute with
GarbledSeries == [kind |-> "garbled", len |-> 250, low |-> 0, high |-> 0, current |-> 0]

\* the source refused the request
Blocked == [kind |-> "blocked", len |-> 0, low |-> 0, high |-> 0, current |-> 0]

\* the body of _fetch_index_history: None for a US or Hong Kong code, the
\* closes the source answers, None when the call raises; it never raises
FetchIndexHistoryBody(index_code, answer) ==
    [raises |-> FALSE,
     value |-> IF index_code \in {"us", "hk"} THEN NoneSeries
               ELSE IF answer.kind = "blocked" THEN NoneSeries
               ELSE answer]

\* _fetch_index_history under @retry(retries=2, delay=3)
FetchIndexHistory(index_code, answers) ==
    Retry(2, [i \in 1..2 |-> FetchIndexHistoryBody(index_code, answers[i])], NoneSeries)

\* percentile < num/100, percentile = (current - low) / (high - low), 0.5 for
\* a flat series
PercentileBelow(h, num) ==
    IF h.high = h.low THEN 50 < num
    ELSE (h.current - h.low) * 100 < num * (h.high - h.low)

\* percentile > num/100
PercentileAbove(h, num) ==
    IF h.high = h.low THEN 50 > num
    ELSE (h.current - h.low) * 100 > num * (h.high - h.low)

\* lines 95-100: the multiplier of a core strategy, in percent, by the
\* tests in the order the code makes them
CoreBand(h) ==
    IF PercentileBelow(h, 20) THEN 150
    ELSE IF PercentileBelow(h, 40) THEN 120
    ELSE IF PercentileAbove(h, 80) THEN 50
    ELSE IF PercentileAbove(h, 90) THEN 0
    ELSE 100

\* lines 102-104
SatelliteBand(h) == IF PercentileAbove(h, 85) THEN 0 ELSE 100

\* lines 106-109
DividendBand(h) ==
    IF PercentileAbove(h, 70) THEN 0
    ELSE IF PercentileBelow(h, 30) THEN 150
    ELSE 100

\* get_valuation_status: the multiplier in percent, and how often the
\* source was asked
GetValuationStatus(index_name, strategy_type, answers) ==
    IF index_name = "" \/ index_name \notin DOMAIN IndexMap
    THEN [mult |-> 100, calls |-> 0, fetched |-> NoneSeries]
    ELSE LET r == FetchIndexHistory(IndexMap[index_name], answers)
             h == r.value
             mult == IF h.kind = "none" \/ h.len < 250 THEN 100
                     ELSE IF h.kind = "garbled" THEN 100
                     ELSE IF strategy_type = "core" THEN CoreBand(h)
                     ELSE IF strategy_type = "satellite" THEN SatelliteBand(h)
                     ELSE IF strategy_type = "dividend" THEN DividendBand(h)
                     ELSE 100
         IN  [mult |-> mult, calls |-> r.calls, fetched |-> h]

----------------------------------------------------------------------------
(* One task of the worker pool: process_single_fund in src/main.py *)

NoDecision ==
    [final_amt |-> 0, label |-> "", is_sell |-> FALSE, sell_val |-> 0,
     tactical_mult |-> 0, blended_mult |-> 0, final_mult |-> 0]

NoRes == [returned |-> FALSE]

\* a dict with the keys decision and adjustment, or some of them: the keys
\* it has, and their values
EmptyDict == [keys |-> {}, decision |-> "", adjustment |-> 0]

\* d.get(key, default)
DictGet(d, key, default) == IF key \in d.keys THEN d[key] ELSE default

\* no wrapped call made
NoWrapped ==
    [retries |-> 0, attempts |-> <<>>, calls |-> 0, status |-> "", value |-> ""]

\* no valuation lookup made
NoLookup == [done |-> FALSE, raised |-> FALSE, calls |-> 0, fetched |-> NoneSeries]

IdleLoc ==
    [fund |-> "", index_name |-> "", strategy_type |-> "", data |-> NoData,
     wrapped |-> NoWrapped, valuation |-> NoLookup,
     ind |-> SafeDefaultIndicators, tech |-> SafeDefaultReading,
     val_mult |-> 100, val_desc |-> "", advisory |-> "none", ai_res |-> EmptyDict,
     ai_adj |-> [int |-> TRUE, v |-> 0], ai_decision |-> "PASS",
     pos |-> GetPosition(EmptyPortfolio, ""), out |-> NoDecision, res |-> NoRes]

\* lines 333-334: tech = analyzer.calculate_indicators(data).  A series of
\* fewer than 30 bars gives the safe default and is left as it is; otherwise
\* the last volume is projected in place, and the indicators are computed
\* unless a step raises, which gives the safe default too.
CalculateIndicators(t, outcome, rounding) ==
    /\ pc[t] = "analyze"
    /\ LET data == loc[t].data
           ind == IF data.len >= 30 /\ outcome = "ok"
                  THEN ComputedIndicators(data, rounding)
                  ELSE SafeDefaultIndicators
       IN  loc' = [loc EXCEPT ![t].data = IF data.len >= 30 THEN ProjectedData(data, rounding)
                                           ELSE data,
                              ![t].ind = ind,
                              ![t].tech = ReadingOf(ind)]
    /\ pc' = [pc EXCEPT ![t] = "value"]
    /\ UNCHANGED <<portfolio, disk, call, ret, ncalls, config, runVars>>

\* a call of a function wrapped by retry(retries, delay), as main and the
\* news and market lookups make them
CallWrapped(t) ==
    /\ pc[t] = "call"
    /\ LET w == loc[t].wrapped
           r == Retry(w.retries, w.attempts, "None")
       IN  loc' = [loc EXCEPT ![t].wrapped.calls = r.calls,
                              ![t].wrapped.status = r.status,
                              ![t].wrapped.value = r.value]
    /\ pc' = [pc EXCEPT ![t] = "called"]
    /\ UNCHANGED <<portfolio, disk, call, ret, ncalls, config, runVars>>

\* lines 336-339: val_mult, val_desc = val_engine.get_valuation_status(...),
\* and 1.0 when the call raises
ValueLookup(t, answers, raised) ==
    /\ pc[t] = "value"
    /\ LET v == GetValuationStatus(loc[t].index_name, loc[t].strategy_type, answers)
           val_mult == IF raised THEN 100 ELSE v.mult
       IN  loc' = [loc EXCEPT ![t].val_mult = val_mult,
                              ![t].val_desc = ValDesc(val_mult),
                              ![t].valuation =
                                    IF raised THEN [NoLookup EXCEPT !.done = TRUE,
                                                                    !.raised = TRUE]
                                    ELSE [done |-> TRUE, raised |-> FALSE,
                                          calls |-> v.calls, fetched |-> v.fetched]]
    /\ pc' = [pc EXCEPT ![t] = "read"]
    /\ UNCHANGED <<portfolio, disk, call, ret, ncalls, config, runVars>>

\* line 364: amt, lbl, is_sell, s_val = calculate_position_v13(...)
Decide(t) ==
    /\ pc[t] = "decide"
    /\ LET l == loc[t]
           d == CalculatePositionV13(l.tech, l.ai_adj, l.ai_decision, l.val_mult,
                                     l.val_desc, config.base_amt, config.max_daily,
                                     l.pos, l.strategy_type)
       IN  loc' = [loc EXCEPT ![t].tech = d.tech,
                              ![t].out = [final_amt |-> d.final_amt, label |-> d.label,
                                          is_sell |-> d.is_sell, sell_val |-> d.sell_val,
                                          tactical_mult |-> d.tactical_mult,
                                          blended_mult |-> d.blended_mult,
                                          final_mult |-> d.final_mult]]
    /\ pc' = [pc EXCEPT ![t] = "record"]
    /\ UNCHANGED <<portfolio, disk, call, ret, ncalls, config, runVars>>

\* lines 341 and 368: with tracker_lock, entered when no task holds the lock
AcquireLock(t) ==
    /\ pc[t] \in {"read", "record"}
    /\ tracker_lock = "free"
    /\ tracker_lock' = t
    /\ UNCHANGED <<ledgerVars, config, pc, loc, main_pc, analyst, results, loaded>>

\* lines 368-371: under the lock, record_signal, then the buy or the sell the
\* decision asks for; leaving the block releases the lock
Record(t) ==
    /\ pc[t] = "record"
    /\ tracker_lock = t
    /\ tracker_lock' = "free"
    /\ LET l == loc[t]
           buy == [op |-> "add_trade", code |-> l.fund, amount |-> l.out.final_amt * Grid,
                   price |-> l.tech.price, is_sell |-> FALSE]
           sell == [op |-> "add_trade", code |-> l.fund, amount |-> l.out.sell_val,
                    price |-> l.tech.price, is_sell |-> TRUE]
       IN  \/ /\ l.out.final_amt > 0
              /\ \E outcome \in SaveOutcomes :
                    AddTradeStep(l.fund, NameOf(l.fund), buy.amount, buy.price, FALSE, outcome)
              /\ call' = buy
           \/ /\ l.out.final_amt <= 0
              /\ l.out.is_sell
              /\ \E outcome \in SaveOutcomes :
                    AddTradeStep(l.fund, NameOf(l.fund), sell.amount, sell.price, TRUE, outcome)
              /\ call' = sell
           \/ /\ l.out.final_amt <= 0
              /\ ~l.out.is_sell
              /\ call' = [NoCall EXCEPT !.op = "record_signal", !.code = l.fund]
              /\ UNCHANGED <<portfolio, disk>>
    /\ pc' = [pc EXCEPT ![t] = "finish"]
    /\ UNCHANGED <<ret, ncalls, config, loc, main_pc, analyst, results, loaded>>

\* lines 373-391: the result handed back to main
Finish(t) ==
    /\ pc[t] = "finish"
    /\ LET l == loc[t]
       IN  loc' = [loc EXCEPT ![t].res =
                [returned |-> TRUE, code |-> l.fund, amount |-> l.out.final_amt,
                 sell_value |-> l.out.sell_val, position_type |-> l.out.label,
                 is_sell |-> l.out.is_sell,
                 history |-> GetSignalHistory(portfolio, l.fund),
                 pos_cost |-> l.pos.cost, pos_shares |-> l.pos.shares]]
    /\ pc' = [pc EXCEPT ![t] = "done"]
    /\ UNCHANGED <<portfolio, disk, call, ret, ncalls, config, runVars>>

----------------------------------------------------------------------------
(* The ledger as a client may drive it *)

IdleTasks ==
    /\ config \in {[base_amt |-> 10 * Grid, max_daily |-> 50 * Grid]}
    /\ pc = [t \in Tasks |-> "idle"]
    /\ loc = [t \in Tasks |-> IdleLoc]
    /\ tracker_lock = "free"
    /\ main_pc = "off"
    /\ analyst = FALSE
    /\ results = <<>>
    /\ loaded = portfolio

\* PortfolioTracker() with no document on disk: an empty ledger, written out
Init ==
    /\ portfolio = EmptyPortfolio
    /\ disk = [complete |-> TRUE, doc |-> EmptyPortfolio]
    /\ call = NoCall
    /\ ret = NoRet
    /\ ncalls = 0
    /\ IdleTasks

Next ==
    \/ \E code \in Codes, amount \in Amounts, price \in Prices,
          is_sell \in BOOLEAN, outcome \in SaveOutcomes :
            AddTrade(code, amount, price, is_sell, outcome)
    \/ \E outcome \in SaveOutcomes : ConfirmTrades(outcome)
    \/ \E code \in Codes : ReadPosition(code)
    \/ \E code \in Codes : ReadSignalHistory(code)
    \/ \E code \in Codes : RecordSignal(code)

Spec == Init /\ [][Next]_vars

----------------------------------------------------------------------------
(* One decision, from every input to the ledger *)

RECURSIVE ConfirmedTimes(_, _)
\* the ledger after n calls of confirm_trades
ConfirmedTimes(p, n) == IF n = 0 THEN p ELSE ConfirmedTimes(ConfirmedPortfolio(p), n - 1)

\* the ledger holds 2 shares of f1 bought at 1, n run cycles ago
HeldLedger(n) ==
    ConfirmedTimes(TradedPortfolio(EmptyPortfolio, "f1", NameOf("f1"), 2 * Grid, 1, FALSE), n)

\* ledgers the task may find: nothing, or f1 in its 6th and in its 7th day
InitLedgers == {EmptyPortfolio, HeldLedger(5), HeldLedger(6)}

\* task t1 stands before line 364 with some reading, advisory result,
\* valuation and position snapshot of f1 in its locals
InitDecide ==
    /\ portfolio \in InitLedgers
    /\ disk = [complete |-> TRUE, doc |-> portfolio]
    /\ call = NoCall
    /\ ret = NoRet
    /\ ncalls = 0
    /\ config \in Configs
    /\ pc = [t \in Tasks |-> IF t = "t1" THEN "decide" ELSE "idle"]
    /\ \E tech \in Readings, ai_adj \in AiAdjs, ai_decision \in AiDecisions,
          val_mult \in ValMults, strategy_type \in StrategyTypes :
            loc = [t \in Tasks |->
                    IF t = "t1"
                    THEN [IdleLoc EXCEPT !.fund = "f1",
                                         !.strategy_type = strategy_type,
                                         !.tech = tech,
                                         !.val_mult = val_mult,
                                         !.val_desc = ValDesc(val_mult),
                                         !.ai_adj = ai_adj,
                                         !.ai_decision = ai_decision,
                                         !.pos = GetPosition(portfolio, "f1")]
                    ELSE IdleLoc]
    /\ tracker_lock = "free"
    /\ main_pc = "collect"
    /\ analyst = TRUE
    /\ results = <<>>
    /\ loaded = portfolio

NextDecide ==
    \/ \E t \in Tasks : Decide(t)
    \/ \E t \in Tasks : AcquireLock(t)
    \/ \E t \in Tasks : Record(t)
    \/ \E t \in Tasks : Finish(t)

SpecDecide == InitDecide /\ [][NextDecide]_vars

\* task t1 stands before line 364 with a reading of any score from 0 to 100,
\* no advisory adjustment, and an empty ledger
InitTier ==
    /\ portfolio = EmptyPortfolio
    /\ disk = [complete |-> TRUE, doc |-> portfolio]
    /\ call = NoCall
    /\ ret = NoRet
    /\ ncalls = 0
    /\ config = [base_amt |-> 10 * Grid, max_daily |-> 50 * Grid]
    /\ pc = [t \in Tasks |-> IF t = "t1" THEN "decide" ELSE "idle"]
    /\ \E score \in 0..100, signal \in CroSignals, val_mult \in ValMults,
          strategy_type \in StrategyTypes :
            loc = [t \in Tasks |->
                    IF t = "t1"
                    THEN [IdleLoc EXCEPT !.fund = "f1",
                                         !.strategy_type = strategy_type,
                                         !.tech = ComputedReading(score, signal, 2),
                                         !.val_mult = val_mult,
                                         !.val_desc = ValDesc(val_mult),
                                         !.pos = GetPosition(portfolio, "f1")]
                    ELSE IdleLoc]
    /\ tracker_lock = "free"
    /\ main_pc = "collect"
    /\ analyst = TRUE
    /\ results = <<>>
    /\ loaded = portfolio

SpecTier == InitTier /\ [][NextDecide]_vars

----------------------------------------------------------------------------
(* One reading, from every series *)

\* the state of a run in which task t1 stands before line 333 with a series
\* from the set datas
AnalyzeFrom(datas) ==
    /\ portfolio = EmptyPortfolio
    /\ disk = [complete |-> TRUE, doc |-> portfolio]
    /\ call = NoCall
    /\ ret = NoRet
    /\ ncalls = 0
    /\ config = [base_amt |-> 10 * Grid, max_daily |-> 50 * Grid]
    /\ pc = [t \in Tasks |-> IF t = "t1" THEN "analyze" ELSE "idle"]
    /\ \E data \in datas :
            loc = [t \in Tasks |->
                    IF t = "t1" THEN [IdleLoc EXCEPT !.fund = "f1", !.data = data]
                    ELSE IdleLoc]
    /\ tracker_lock = "free"
    /\ main_pc = "collect"
    /\ analyst = TRUE
    /\ results = <<>>
    /\ loaded = portfolio

\* last five volumes: a flat series (ratio 1.0), a last bar at 0.6 of the
\* average exactly, one below it, one above 1.2 of it, and no volume at all
SignalVolumes ==
    {<<5, 5, 5, 5, 5>>, <<5, 5, 6, 6, 3>>, <<5, 5, 6, 6, 2>>, <<5, 5, 5, 5, 10>>,
     <<0, 0, 0, 0, 0>>}

\* RSI on both sides of 30, 70 and 85, in units of 1/100
SignalRsis == {2999, 3000, 5000, 7001, 8500, 8501, 9000}

\* series read after the close and 30 minutes into the session
SignalDatas ==
    [len : {29, 30}, last_is_today : {TRUE}, ref_min : {10 * 60, 15 * 60},
     volume : SignalVolumes, price : {2}, rsi : SignalRsis, macd_hist : {-1, 1},
     obv_slope : {0, 1}, trend_status : {"UP", "DOWN", "Unknown"}]

InitSignal == AnalyzeFrom(SignalDatas)

NextSignal ==
    \E t \in Tasks, outcome \in LibraryOutcomes, rounding \in FloatRoundings :
        CalculateIndicators(t, outcome, rounding)

\* series with a flat volume and with a last bar of 13, of fewer and of more
\* than 30 bars, read at every minute of the day, on the day of the last
\* bar and on a later day
ProjectDatas ==
    [len : {29, 30}, last_is_today : BOOLEAN, ref_min : 0..(24 * 60 - 1),
     volume : {<<5, 5, 5, 5, 5>>, <<20, 20, 20, 20, 13>>}, price : {2}, rsi : {5000},
     macd_hist : {1}, obv_slope : {1}, trend_status : {"UP"}]

InitProject == AnalyzeFrom(ProjectDatas)

SpecProject == InitProject /\ [][NextSignal]_vars

SpecSignal == InitSignal /\ [][NextSignal]_vars

----------------------------------------------------------------------------
(* The full sell in floating point                                         *)
(*                                                                         *)
(* The ledger above computes on the grid as if every product and quotient  *)
(* were exact.  A Python float keeps 53 significant bits; here a number    *)
(* keeps MantBits significant bits, and every product, quotient and        *)
(* difference is rounded to the nearest such number, ties to even, as      *)
(* IEEE 754 arithmetic does.  Shares and money still count units of        *)
(* 1/Grid and prices whole currency units.                                 *)

\* significant bits of a float
MantBits == 3

\* the largest holding, in units of 1/Grid
MaxShares == 16

RECURSIVE Ulp(_, _, _)
\* the spacing of the floats around n / d: the least u = 2^k with n / d < 2^MantBits * u
Ulp(n, d, u) == IF n >= (2 ^ MantBits) * u * d THEN Ulp(n, d, 2 * u) ELSE u

\* n / d (n >= 0, d > 0) rounded to the nearest float, ties to even
Fl(n, d) ==
    LET u == Ulp(n, d, 1)
        q == n \div (d * u)
        r == n % (d * u)
    IN  IF 2 * r > d * u \/ (2 * r = d * u /\ q % 2 = 1) THEN (q + 1) * u ELSE q * u

\* sell_val = pos['shares'] * price * sell_ratio with sell_ratio = 1.0
FloatFullSellVal(shares, price) == Fl(Fl(shares * price, 1) * 1, 1)

\* the sell branch of add_trade, with shares_change = amount_or_value / price
FloatSellPos(pos, amount, price) ==
    LET shares_change == Fl(amount, price)
        real_sell_shares == Min(pos.shares, shares_change)
        shares == Max(0, Fl(pos.shares - real_sell_shares, 1))
        record == [price |-> price, s |-> "S",
                   amt |-> 0 - IntOf(Fl(real_sell_shares * price, 1), Grid)]
    IN  [pos EXCEPT !.shares = shares,
                    !.cost = IF shares = 0 THEN 0 ELSE @,
                    !.held_days = IF shares = 0 THEN 0 ELSE @,
                    !.history = LastN(Append(@, record), HistMax)]

\* a sell decision with multiplier <= -1.0 on a held instrument, at the
\* price of the day: main computes the value of the whole holding and
\* add_trade turns it back into shares
FloatFullSell(code, price, outcome) ==
    /\ ncalls < MaxOps
    /\ code \in DOMAIN portfolio
    /\ portfolio[code].shares > 0
    /\ UNCHANGED taskVars
    /\ LET s_val == FloatFullSellVal(portfolio[code].shares, price)
       IN  /\ portfolio' = [portfolio EXCEPT ![code] = FloatSellPos(@, s_val, price)]
           /\ call' = [op |-> "add_trade", code |-> code, amount |-> s_val,
                       price |-> price, is_sell |-> TRUE]
    /\ disk' = SavePortfolio(portfolio', disk, outcome)
    /\ ret' = NoRet
    /\ ncalls' = ncalls + 1

\* the holdings a float can have
FloatShares == {s \in 1..MaxShares : Fl(s, 1) = s}

FloatPrices == 1..7

\* f1 was bought at price 1, eight run cycles ago
FloatLedgers ==
    {ConfirmedTimes(TradedPortfolio(EmptyPortfolio, "f1", NameOf("f1"), s, 1, FALSE), 7) :
        s \in FloatShares}

InitFloat ==
    /\ portfolio \in FloatLedgers
    /\ disk = [complete |-> TRUE, doc |-> portfolio]
    /\ call = NoCall
    /\ ret = NoRet
    /\ ncalls = 0
    /\ IdleTasks

NextFloat ==
    \E code \in Codes, price \in FloatPrices, outcome \in SaveOutcomes :
        FloatFullSell(code, price, outcome)

SpecFloat == InitFloat /\ [][NextFloat]_vars

----------------------------------------------------------------------------
(* Trades on an instrument whose history is already long *)

RECURSIVE BoughtTimes(_, _)
\* the ledger after n buys of f1 at price 1, the i-th of i currency units
BoughtTimes(p, n) ==
    IF n = 0 THEN p
    ELSE TradedPortfolio(BoughtTimes(p, n - 1), "f1", NameOf("f1"), n * Grid, 1, FALSE)

InitHistory ==
    /\ portfolio \in {BoughtTimes(EmptyPortfolio, n) : n \in 0..HistMax}
    /\ disk = [complete |-> TRUE, doc |-> portfolio]
    /\ call = NoCall
    /\ ret = NoRet
    /\ ncalls = 0
    /\ IdleTasks

NextHistory ==
    \E code \in Codes, price \in {0, 1, 2}, is_sell \in BOOLEAN :
        AddTrade(code, Grid, price, is_sell, "ok")

SpecHistory == InitHistory /\ [][NextHistory]_vars

----------------------------------------------------------------------------
(* One run cycle: main and the tasks of its worker pool, src/main.py *)

\* ThreadPoolExecutor(max_workers=5)
MaxWorkers == 5

\* readings of a run: a strong score, a breakdown, and a strong score under a veto
RunReadings ==
    {ComputedReading(85, "PASS", 2), ComputedReading(0, "PASS", 2),
     ComputedReading(85, "VETO", 2)}

\* how the advisory lookup of a task ends when main has an analyst
AdvisoryOutcomes == {"raised", "non200", "unparsable", "answered"}

\* the decision key of a parsed answer; "" when the answer has none
AnsweredDecisions == {"EXECUTE", "HOLD", ""}

\* _get_fallback_result
FallbackResult == [keys |-> {"decision", "adjustment"}, decision |-> "HOLD", adjustment |-> 0]

\* fuse_level = 3 if cro_signal == 'VETO' else (1 if cro_signal == 'WARN' else 0)
FuseLevel(cro_signal) ==
    IF cro_signal = "VETO" THEN 3 ELSE IF cro_signal = "WARN" THEN 1 ELSE 0

\* what analyze_fund_v5 returns: the fallback on a non-200 status or an
\* exception inside its try, else the parsed answer, overridden when fused
AnalyzeFundV5(outcome, decision, fuse_level) ==
    IF outcome \in {"non200", "unparsable"} THEN FallbackResult
    ELSE IF fuse_level >= 2
    THEN [keys |-> {"decision", "adjustment"}, decision |-> "REJECT", adjustment |-> -30]
    ELSE IF decision = "" THEN [keys |-> {"adjustment"}, decision |-> "", adjustment |-> 0]
    ELSE [keys |-> {"decision", "adjustment"}, decision |-> decision, adjustment |-> 0]

\* lines 343-360: ai_res, from no analyst, from an exception that reaches
\* main, or from what analyze_fund_v5 returns
AiRes(has_analyst, outcome, decision, fuse_level) ==
    IF ~has_analyst THEN EmptyDict
    ELSE IF outcome = "raised" THEN [keys |-> {"adjustment"}, decision |-> "", adjustment |-> 0]
    ELSE AnalyzeFundV5(outcome, decision, fuse_level)

Running(t) == pc[t] \in {"fetch", "read", "advise", "decide", "record", "finish"}

\* the futures of a run: one per entry of config['funds']
Futures == {t \in Tasks : loc[t].fund # ""}

\* line 400: tracker.confirm_trades()
MainConfirm(outcome) ==
    /\ main_pc = "confirm"
    /\ portfolio' = ConfirmedPortfolio(portfolio)
    /\ disk' = SavePortfolio(portfolio', disk, outcome)
    /\ call' = [NoCall EXCEPT !.op = "confirm_trades"]
    /\ main_pc' = "analyst"
    /\ UNCHANGED <<ret, ncalls, config, pc, loc, tracker_lock, analyst, results, loaded>>

\* lines 401-404: analyst = NewsAnalyst(), None when it raises
MainAnalyst ==
    /\ main_pc = "analyst"
    /\ analyst' \in BOOLEAN
    /\ main_pc' = "submit"
    /\ UNCHANGED <<ledgerVars, config, pc, loc, tracker_lock, results, loaded>>

\* lines 422-427: one future per fund of the configuration
Submit ==
    /\ main_pc = "submit"
    /\ pc' = [t \in Tasks |-> IF t \in Futures THEN "queued" ELSE pc[t]]
    /\ main_pc' = "collect"
    /\ UNCHANGED <<ledgerVars, config, loc, tracker_lock, analyst, results, loaded>>

\* a worker of the pool takes a queued task
Start(t) ==
    /\ pc[t] = "queued"
    /\ Cardinality({u \in Tasks : Running(u)}) < MaxWorkers
    /\ pc' = [pc EXCEPT ![t] = "fetch"]
    /\ UNCHANGED <<ledgerVars, config, loc, runVars>>

\* lines 329-331: no data, the task returns None
FetchNothing(t) ==
    /\ pc[t] = "fetch"
    /\ pc' = [pc EXCEPT ![t] = "done"]
    /\ UNCHANGED <<ledgerVars, config, loc, runVars>>

\* lines 329-339: the history, its reading, and the valuation
Fetch(t, tech) ==
    /\ pc[t] = "fetch"
    /\ loc' = [loc EXCEPT ![t].tech = tech, ![t].val_mult = 100,
                           ![t].val_desc = ValDesc(100)]
    /\ pc' = [pc EXCEPT ![t] = "read"]
    /\ UNCHANGED <<ledgerVars, config, runVars>>

\* line 341: under the lock, pos = tracker.get_position(fund['code'])
ReadPos(t) ==
    /\ pc[t] = "read"
    /\ tracker_lock = t
    /\ tracker_lock' = "free"
    /\ loc' = [loc EXCEPT ![t].pos = GetPosition(portfolio, loc[t].fund)]
    /\ pc' = [pc EXCEPT ![t] = "advise"]
    /\ call' = [NoCall EXCEPT !.op = "get_position", !.code = loc[t].fund]
    /\ UNCHANGED <<portfolio, disk, ret, ncalls, config, main_pc, analyst, results, loaded>>

\* lines 343-362: the advisory lookup, ai_adj and ai_decision
Advise(t, outcome, decision) ==
    /\ pc[t] = "advise"
    /\ LET ai_res == AiRes(analyst, outcome, decision,
                           FuseLevel(loc[t].tech.tech_cro_signal))
       IN  loc' = [loc EXCEPT
                ![t].advisory = IF analyst THEN outcome ELSE "no_analyst",
                ![t].ai_res = ai_res,
                ![t].ai_adj = [int |-> TRUE, v |-> DictGet(ai_res, "adjustment", 0)],
                ![t].ai_decision = DictGet(ai_res, "decision", "PASS")]
    /\ pc' = [pc EXCEPT ![t] = "decide"]
    /\ UNCHANGED <<ledgerVars, config, runVars>>

\* Raise where an exception under the lock leaves the lock held
Raise_KeepsLock(t) ==
    /\ \/ pc[t] \in {"fetch", "decide"}
       \/ pc[t] = "record" /\ tracker_lock = t
       \/ pc[t] = "finish" /\ loc[t].advisory = "answered"
    /\ pc' = [pc EXCEPT ![t] = "failed"]
    /\ UNCHANGED <<ledgerVars, config, loc, runVars>>

\* lines 388-390: an exception in the task is caught and None returned; an
\* exception under the lock leaves the with block and so releases the lock.
\* After the block only bull[:20] and bear[:20] of lines 373-376 can raise,
\* on a parsed answer whose bull_view or bear_view is not a string
Raise(t) ==
    /\ \/ pc[t] \in {"fetch", "decide"}
       \/ pc[t] = "record" /\ tracker_lock = t
       \/ pc[t] = "finish" /\ loc[t].advisory = "answered"
    /\ tracker_lock' = IF tracker_lock = t THEN "free" ELSE tracker_lock
    /\ pc' = [pc EXCEPT ![t] = "failed"]
    /\ UNCHANGED <<ledgerVars, config, loc, main_pc, analyst, results, loaded>>

\* lines 429-435: main takes a completed future and keeps its result if any
Collect(t) ==
    /\ main_pc = "collect"
    /\ pc[t] \in {"done", "failed"}
    /\ results' = IF pc[t] = "done" /\ loc[t].res.returned
                   THEN Append(results, loc[t].res) ELSE results
    /\ pc' = [pc EXCEPT ![t] = "joined"]
    /\ UNCHANGED <<ledgerVars, config, loc, tracker_lock, main_pc, analyst, loaded>>

\* the loop over as_completed ends when every future was taken
MainEnd ==
    /\ main_pc = "collect"
    /\ \A t \in Futures : pc[t] = "joined"
    /\ main_pc' = "end"
    /\ UNCHANGED <<ledgerVars, config, pc, loc, tracker_lock, analyst, results, loaded>>

\* f1 was bought six run cycles ago, f2 was bought and then sold in full
HeldAndSoldLedger ==
    TradedPortfolio(
        TradedPortfolio(HeldLedger(6), "f2", NameOf("f2"), 2 * Grid, 1, FALSE),
        "f2", NameOf("f2"), 2 * Grid, 1, TRUE)

\* the ledgers a run may load
RunLedgers == {EmptyPortfolio, HeldAndSoldLedger}

\* the funds of the configuration: two instruments, or the same one twice
RunFunds ==
    {[t \in Tasks |-> IF t = "t1" THEN "f1" ELSE IF t = "t2" THEN code ELSE ""] :
        code \in Codes}

\* main stands before line 400 with the ledger loaded and no task submitted
InitRun ==
    /\ portfolio \in RunLedgers
    /\ disk = [complete |-> TRUE, doc |-> portfolio]
    /\ call = NoCall
    /\ ret = NoRet
    /\ ncalls = 0
    /\ config = [base_amt |-> 10 * Grid, max_daily |-> 50 * Grid]
    /\ pc = [t \in Tasks |-> "idle"]
    /\ \E funds \in RunFunds :
          loc = [t \in Tasks |-> [IdleLoc EXCEPT !.fund = funds[t],
                                                 !.strategy_type = "core"]]
    /\ tracker_lock = "free"
    /\ main_pc = "confirm"
    /\ analyst = FALSE
    /\ results = <<>>
    /\ loaded = portfolio

\* a step of task t, its reading and its advisory result drawn from the given sets
TaskStep(t, readings, outcomes, decisions) ==
    \/ Start(t)
    \/ FetchNothing(t)
    \/ \E tech \in readings : Fetch(t, tech)
    \/ AcquireLock(t)
    \/ ReadPos(t)
    \/ \E outcome \in outcomes, decision \in decisions : Advise(t, outcome, decision)
    \/ Decide(t)
    \/ Record(t)
    \/ Finish(t)
    \/ Raise(t)

TaskNext(t) == TaskStep(t, RunReadings, AdvisoryOutcomes, AnsweredDecisions)

NextRun ==
    \/ \E outcome \in SaveOutcomes : MainConfirm(outcome)
    \/ MainAnalyst
    \/ Submit
    \/ \E t \in Tasks : TaskNext(t)
    \/ \E t \in Tasks : Collect(t)
    \/ MainEnd

SpecRun == InitRun /\ [][NextRun]_vars

(* The run cycle under fair scheduling.  Whether a run completes depends on *)
(* the paths the threads take, not on the numbers: each task draws a buy or *)
(* a sell reading, and an advisory call that raises or answers.             *)

FairReadings == {ComputedReading(85, "PASS", 2), ComputedReading(0, "PASS", 2)}

FairTaskNext(t) == TaskStep(t, FairReadings, {"raised", "answered"}, {"EXECUTE"})

NextRunFair ==
    \/ MainConfirm("ok")
    \/ MainAnalyst
    \/ Submit
    \/ \E t \in Tasks : FairTaskNext(t)
    \/ \E t \in Tasks : Collect(t)
    \/ MainEnd

\* every thread that can take a step eventually takes one: each task on a
\* worker of the pool, and main
FairRun ==
    /\ \A t \in Tasks : WF_vars(FairTaskNext(t))
    /\ WF_vars(MainConfirm("ok") \/ MainAnalyst \/ Submit \/ MainEnd
                 \/ \E t \in Tasks : Collect(t))

SpecRunFair == InitRun /\ [][NextRunFair]_vars /\ FairRun

----------------------------------------------------------------------------
(* A run cycle whose configuration lists one instrument three times *)

\* main stands before line 422: the ledger it loaded holds f1, bought six
\* run cycles ago, confirm_trades has aged it, NewsAnalyst() has raised,
\* and config['funds'] has three entries for f1
InitRunThrice ==
    /\ loaded = HeldLedger(6)
    /\ portfolio = ConfirmedPortfolio(loaded)
    /\ disk = [complete |-> TRUE, doc |-> portfolio]
    /\ call = [NoCall EXCEPT !.op = "confirm_trades"]
    /\ ret = NoRet
    /\ ncalls = 0
    /\ config = [base_amt |-> 10 * Grid, max_daily |-> 50 * Grid]
    /\ pc = [t \in Tasks |-> "idle"]
    /\ loc = [t \in Tasks |-> [IdleLoc EXCEPT !.fund = "f1", !.strategy_type = "core"]]
    /\ tracker_lock = "free"
    /\ main_pc = "submit"
    /\ analyst = FALSE
    /\ results = <<>>

NextRunThrice ==
    \/ Submit
    \/ \E t \in Tasks : FairTaskNext(t)
    \/ \E t \in Tasks : Collect(t)
    \/ MainEnd

SpecRunThrice == InitRunThrice /\ [][NextRunThrice]_vars

----------------------------------------------------------------------------
(* The lookups of one task, and a wrapped call *)

\* what a wrapped function does on one invocation: it raises, or returns
WrappedOutcomes == {[raises |-> TRUE, value |-> "None"], [raises |-> FALSE, value |-> "a"]}

\* a series too short, and one at the 10th percentile
ShortSeries == Series(249, 0, 100, 10)

LowSeries == Series(250, 0, 100, 10)

\* what the source answers to the two requests retry allows
LookupAnswers ==
    {<<first, second>> : first \in {Blocked, ShortSeries, LowSeries, GarbledSeries},
                         second \in {Blocked, LowSeries}}

\* task t1 stands before line 336 with its reading, task t2 before a call
\* of a wrapped function
InitLookup ==
    /\ portfolio = EmptyPortfolio
    /\ disk = [complete |-> TRUE, doc |-> portfolio]
    /\ call = NoCall
    /\ ret = NoRet
    /\ ncalls = 0
    /\ config = [base_amt |-> 10 * Grid, max_daily |-> 50 * Grid]
    /\ pc = [t \in Tasks |-> IF t = "t1" THEN "value" ELSE IF t = "t2" THEN "call" ELSE "idle"]
    /\ \E index_name \in IndexNames, tech \in FairReadings, retries \in 0..MaxRetries,
          attempts \in [1..MaxRetries -> WrappedOutcomes] :
            loc = [t \in Tasks |->
                    IF t = "t1"
                    THEN [IdleLoc EXCEPT !.fund = "f1",
                                         !.index_name = index_name,
                                         !.strategy_type = "core",
                                         !.tech = tech]
                    ELSE IF t = "t2"
                    THEN [IdleLoc EXCEPT !.wrapped.retries = retries,
                                         !.wrapped.attempts = attempts]
                    ELSE IdleLoc]
    /\ tracker_lock = "free"
    /\ main_pc = "collect"
    /\ analyst \in BOOLEAN
    /\ results = <<>>
    /\ loaded = portfolio

NextLookup ==
    \/ \E t \in Tasks : CallWrapped(t)
    \/ \E t \in Tasks, answers \in LookupAnswers, raised \in BOOLEAN :
            ValueLookup(t, answers, raised)
    \/ \E t \in Tasks : AcquireLock(t)
    \/ \E t \in Tasks : ReadPos(t)
    \/ \E t \in Tasks, outcome \in AdvisoryOutcomes, decision \in AnsweredDecisions :
            Advise(t, outcome, decision)
    \/ \E t \in Tasks : Decide(t)
    \/ \E t \in Tasks : Record(t)
    \/ \E t \in Tasks : Finish(t)
    \/ \E t \in Tasks : Collect(t)

SpecLookup == InitLookup /\ [][NextLookup]_vars

----------------------------------------------------------------------------
(* The valuation lookup over the percentiles of a series *)

\* a series of 250 closes between 0 and 100 whose last close is current
ClosesAt(current) == Series(250, 0, 100, current)

\* a series whose closes are all 7
FlatSeries == Series(250, 7, 7, 7)

\* what the source answers: the first answer is the one the lookup uses
ValuationAnswers ==
    {<<first, Blocked>> :
        first \in {Blocked, ShortSeries, GarbledSeries, FlatSeries}
                  \cup {ClosesAt(current) : current \in 0..100}}

\* task t1 stands before line 336 with the index and the strategy of its fund
InitValuation ==
    /\ portfolio = EmptyPortfolio
    /\ disk = [complete |-> TRUE, doc |-> portfolio]
    /\ call = NoCall
    /\ ret = NoRet
    /\ ncalls = 0
    /\ config = [base_amt |-> 10 * Grid, max_daily |-> 50 * Grid]
    /\ pc = [t \in Tasks |-> IF t = "t1" THEN "value" ELSE "idle"]
    /\ \E index_name \in IndexNames, strategy_type \in StrategyTypes :
            loc = [t \in Tasks |->
                    IF t = "t1"
                    THEN [IdleLoc EXCEPT !.fund = "f1",
                                         !.index_name = index_name,
                                         !.strategy_type = strategy_type]
                    ELSE IdleLoc]
    /\ tracker_lock = "free"
    /\ main_pc = "collect"
    /\ analyst = FALSE
    /\ results = <<>>
    /\ loaded = portfolio

NextValuation ==
    \E t \in Tasks, answers \in ValuationAnswers, raised \in BOOLEAN :
        ValueLookup(t, answers, raised)

SpecValuation == InitValuation /\ [][NextValuation]_vars

----------------------------------------------------------------------------
(* Properties of the ledger, checked under Spec *)

\* C1: in every reachable ledger state, every position with shares = 0 has
\* cost = 0 and held_days = 0.
C1_ZeroSharesAreReset ==
    \A c \in DOMAIN portfolio :
        portfolio[c].shares = 0 =>
            portfolio[c].cost = 0 /\ portfolio[c].held_days = 0

\* every position has shares, cost and held_days >= 0
NonNegativeLedger ==
    \A c \in DOMAIN portfolio :
        /\ portfolio[c].shares >= 0
        /\ portfolio[c].cost >= 0
        /\ portfolio[c].held_days >= 0

\* a sell that takes effect removes min(held shares, value / price) shares
SellRemovesMin ==
    (call'.op = "add_trade" /\ call'.is_sell /\ call'.price > 0) =>
        LET held == GetPosition(portfolio, call'.code).shares
            asked == RoundDiv(call'.amount, call'.price)
        IN  GetPosition(portfolio', call'.code).shares =
                held - (IF held <= asked THEN held ELSE asked)

\* C8: every position has shares >= 0, cost >= 0 and held_days >= 0 in every
\* reachable state, and a sell of any value removes min(held shares,
\* value / price) shares, so that it never drives shares negative.
C8_NonNegativeAndSellClamped == []NonNegativeLedger /\ [][SellRemovesMin]_vars

\* a sell asked for more than the holding has emptied a position that held shares
C8_Witness ==
    /\ call.op = "add_trade" /\ call.is_sell /\ call.price > 0
    /\ call.code \in DOMAIN portfolio
    /\ portfolio[call.code].shares = 0
    /\ Len(portfolio[call.code].history) >= 2
    /\ portfolio[call.code].history[Len(portfolio[call.code].history)].amt < 0
    /\ 0 - portfolio[call.code].history[Len(portfolio[call.code].history)].amt
            < IntOf(call.amount, Grid)

PositionsUnchanged ==
    \A c \in Codes : GetPosition(portfolio', c) = GetPosition(portfolio, c)

\* C9 as stated: a step of any ledger operation other than add_trade leaves
\* what get_position returns, for every instrument, unchanged.
C9_OnlyAddTradeChangesPosition ==
    [][call'.op # "add_trade" => PositionsUnchanged]_vars

\* C9 as amended: a step of any ledger operation other than add_trade and
\* confirm_trades leaves what get_position returns, for every instrument,
\* unchanged; so two calls of get_position with neither between them return
\* identical shares, cost and held_days.
C9_OnlyTradeAndConfirmChangePosition ==
    [][call'.op \notin {"add_trade", "confirm_trades"} => PositionsUnchanged]_vars

\* get_position has read a held position, after a buy and one more operation
C9_Witness ==
    /\ ncalls >= 3
    /\ call.op = "get_position"
    /\ ret.value.shares > 0
    /\ ret.value = GetPosition(portfolio, call.code)

\* C10: add_trade with price <= 0 leaves the ledger and the persisted
\* document unchanged: no position record is created and no history record
\* appended, for a buy and for a sell.
C10_NonPositivePriceIsNoOp ==
    [][(call'.op = "add_trade" /\ call'.price <= 0) =>
            (portfolio' = portfolio /\ disk' = disk)]_vars

\* add_trade was called with price <= 0 for an instrument the ledger does
\* not know, while it holds another
C10_Witness ==
    /\ call.op = "add_trade"
    /\ call.price <= 0
    /\ call.amount > 0
    /\ call.code \notin DOMAIN portfolio
    /\ portfolio # EmptyPortfolio

\* a buy of a positive amount that takes effect
BuyStep == call'.op = "add_trade" /\ ~call'.is_sell /\ call'.price > 0 /\ call'.amount > 0

\* the cost after a buy is exactly (s*c + a) / (s + a/p)
BuyCostIsExactAverage ==
    BuyStep =>
        LET old == GetPosition(portfolio, call'.code)
            new == GetPosition(portfolio', call'.code)
        IN  new.cost * new.shares = old.shares * old.cost + call'.amount * CostQ

\* C11 as stated: a buy of a > 0 at p > 0 leaves cost = (s*c + a) / (s + a/p)
\* exactly.
C11_BuyCostIsExactAverage == [][BuyCostIsExactAverage]_vars

\* after a buy, shares = s + a/p, held_days is 1 if it was 0 and unchanged
\* otherwise, and cost is within half a unit of the fourth decimal of
\* (s*c + (a/p)*p) / (s + a/p)
BuyAverages ==
    BuyStep =>
        LET old == GetPosition(portfolio, call'.code)
            new == GetPosition(portfolio', call'.code)
            bought == RoundDiv(call'.amount, call'.price)
        IN  /\ new.shares = old.shares + bought
            /\ new.shares > 0
            /\ 2 * Abs(new.cost * new.shares
                         - (old.shares * old.cost + bought * call'.price * CostQ))
                    <= new.shares
            /\ new.held_days = (IF old.held_days = 0 THEN 1 ELSE old.held_days)

\* 1000 at 10 on an empty ledger, then 500 at 20: shares 100, cost 10,
\* held_days 1, then shares 125, cost 12
ScenarioBuys ==
    LET first == TradedPortfolio(EmptyPortfolio, "f1", NameOf("f1"), 1000 * Grid, 10, FALSE)
        second == TradedPortfolio(first, "f1", NameOf("f1"), 500 * Grid, 20, FALSE)
    IN  /\ GetPosition(first, "f1") =
                [shares |-> 100 * Grid, cost |-> 10 * CostQ, held_days |-> 1]
        /\ GetPosition(second, "f1") =
                [shares |-> 125 * Grid, cost |-> 12 * CostQ, held_days |-> 1]

\* C11 as amended: a buy of a > 0 at p > 0 on (s, c, h) leaves shares =
\* s + a/p, held_days = 1 if h was 0 and h otherwise, and cost = the weighted
\* average (s*c + (a/p)*p) / (s + a/p) rounded to 4 decimal places; 1000 at
\* 10 on an empty position gives shares 100, cost 10, held_days 1, and a
\* following 500 at 20 gives shares 125, cost 12.
C11_BuyAveragesRounded == []ScenarioBuys /\ [][BuyAverages]_vars

\* a second buy at another price left an average that is not a whole
\* multiple of the price unit and that the fourth decimal cannot hold exactly
C11_Witness ==
    /\ call.op = "add_trade" /\ ~call.is_sell /\ call.price > 0 /\ call.amount > 0
    /\ call.code \in DOMAIN portfolio
    /\ Len(portfolio[call.code].history) >= 2
    /\ portfolio[call.code].held_days = 1
    /\ \A i \in 1..Len(portfolio[call.code].history) :
            portfolio[call.code].history[i].s = "B"
    /\ (portfolio[call.code].cost * portfolio[call.code].shares) % CostQ # 0

\* C12: a full sell (sell value = shares x price, recorded at that same
\* price) on a position with shares > 0 leaves the position with shares = 0,
\* cost = 0 and held_days = 0.
C12_FullSellEmptiesPosition ==
    [][(/\ call'.op = "add_trade" /\ call'.is_sell /\ call'.price > 0
        /\ GetPosition(portfolio, call'.code).shares > 0
        /\ call'.amount =
              FloatFullSellVal(GetPosition(portfolio, call'.code).shares, call'.price)) =>
            GetPosition(portfolio', call'.code) =
                [shares |-> 0, cost |-> 0, held_days |-> 0]]_vars

\* every history holds at most 10 records
HistoryBounded ==
    \A c \in DOMAIN portfolio : Len(portfolio[c].history) <= 10

\* an add_trade that takes effect leaves the last 9 (or fewer) records of
\* the previous history, in their order, followed by the record of the trade
HistoryShifts ==
    (call'.op = "add_trade" /\ call'.price > 0) =>
        LET old == GetSignalHistory(portfolio, call'.code)
            new == GetSignalHistory(portfolio', call'.code)
            kept == IF Len(old) <= 9 THEN Len(old) ELSE 9
        IN  /\ Len(new) = kept + 1
            /\ \A i \in 1..kept : new[i] = old[Len(old) - kept + i]
            /\ new[kept + 1].price = call'.price
            /\ new[kept + 1].s = (IF call'.is_sell THEN "S" ELSE "B")

\* C14: after any add_trade that takes effect, the instrument's history holds
\* at most 10 records: the previous history's last 9 (or fewer), in
\* chronological order, followed by the new record.
C14_HistoryKeepsLastTen == []HistoryBounded /\ [][HistoryShifts]_vars

\* a trade on a full history has pushed out its two oldest records
C14_Witness ==
    /\ call.op = "add_trade" /\ call.price > 0
    /\ call.code \in DOMAIN portfolio
    /\ Len(portfolio[call.code].history) = 10
    /\ portfolio[call.code].history[1].amt = 3
    /\ portfolio[call.code].history[8].amt = 10

----------------------------------------------------------------------------
(* Properties of the run cycle, checked under SpecRun and SpecRunFair *)

Finished(t) == pc[t] \in {"done", "failed", "joined"}

\* C16: under fair scheduling every submitted task eventually finishes, a
\* held tracker_lock is eventually released, and main reaches the end of its
\* result-collection loop (so no state before that end is a deadlock),
\* whatever the tasks fetch, are advised, decide or raise.
C16_RunCompletes ==
    <>[](/\ main_pc = "end"
         /\ tracker_lock = "free"
         /\ \A t \in Futures : Finished(t))

\* main is past its loop after one task raised once it had decided, and
\* the other task has recorded a trade and returned its result
C16_Witness ==
    /\ main_pc = "end"
    /\ tracker_lock = "free"
    /\ \E t \in Tasks :
          /\ ~loc[t].res.returned
          /\ loc[t].out.label # ""
    /\ \E t \in Tasks : loc[t].res.returned /\ call.op = "add_trade"

\* what a position of the loaded ledger is after one confirm_trades
AgedOnce(pos) ==
    [name |-> pos.name, shares |-> pos.shares, cost |-> pos.cost,
     held_days |-> IF pos.shares > 0 THEN pos.held_days + 1 ELSE pos.held_days,
     history |-> pos.history]

\* while main stands before confirm_trades no task has been submitted and the
\* ledger is as loaded; afterwards every position no trade has touched since
\* is the loaded one aged exactly once
ConfirmedOnceBeforeTasks ==
    /\ main_pc = "confirm" => (portfolio = loaded /\ \A t \in Tasks : pc[t] = "idle")
    /\ main_pc # "confirm" =>
          \A c \in DOMAIN loaded :
              portfolio[c].history = loaded[c].history =>
                  portfolio[c] = AgedOnce(loaded[c])

\* main never comes back to confirm_trades, and the step that takes it past
\* is the only one in which main calls it
ConfirmStepOnly ==
    /\ main_pc # "confirm" => main_pc' # "confirm"
    /\ (main_pc = "confirm" /\ main_pc' # "confirm") =>
          /\ DOMAIN portfolio' = DOMAIN portfolio
          /\ \A c \in DOMAIN portfolio : portfolio'[c] = AgedOnce(portfolio[c])
    /\ (call'.op = "confirm_trades" /\ main_pc' = main_pc) => portfolio' = portfolio

\* C13: in every run cycle confirm_trades runs exactly once, before any task
\* reads a position or records a trade; it adds exactly 1 to held_days of
\* every position with shares > 0 and leaves shares, cost, history and every
\* position with shares = 0 unchanged.
C13_ConfirmTradesOncePerRun == []ConfirmedOnceBeforeTasks /\ [][ConfirmStepOnly]_vars

\* a task has read the position of f1, aged from 7 to 8 days, while the sold
\* position of f2 is as it was loaded
C13_Witness ==
    /\ pc["t1"] = "advise"
    /\ loc["t1"].fund = "f1"
    /\ "f1" \in DOMAIN loaded /\ "f2" \in DOMAIN loaded
    /\ loaded["f1"].held_days = 7
    /\ loc["t1"].pos.held_days = 8
    /\ loaded["f2"].shares = 0
    /\ portfolio["f2"] = loaded["f2"]

\* the instruction of a decision: buy amount, action, sell flag and sell value
InstructionOf(d) ==
    [final_amt |-> d.final_amt, label |-> d.label, is_sell |-> d.is_sell,
     sell_val |-> d.sell_val]

\* what the task with locals l decides when it reads its position from ledger p
DecisionOn(p, l) ==
    CalculatePositionV13(l.tech, l.ai_adj, l.ai_decision, l.val_mult, l.val_desc,
                         config.base_amt, config.max_daily, GetPosition(p, l.fund),
                         l.strategy_type)

\* ledger p after that task has run alone from its read to its write
LedgerAfter(p, l) ==
    LET d == DecisionOn(p, l)
    IN  IF l.tech.price <= 0 THEN p
        ELSE IF d.final_amt > 0
        THEN TradedPortfolio(p, l.fund, NameOf(l.fund), d.final_amt * Grid, l.tech.price, FALSE)
        ELSE IF d.is_sell
        THEN TradedPortfolio(p, l.fund, NameOf(l.fund), d.sell_val, l.tech.price, TRUE)
        ELSE p

\* the ledger and the two instructions are those of the run of x, then of y
SerialOrder(x, y) ==
    LET p0 == ConfirmedPortfolio(loaded)
        p1 == LedgerAfter(p0, loc[x])
    IN  /\ InstructionOf(loc[x].out) = InstructionOf(DecisionOn(p0, loc[x]))
        /\ InstructionOf(loc[y].out) = InstructionOf(DecisionOn(p1, loc[y]))
        /\ portfolio = LedgerAfter(p1, loc[y])

\* C15: when two tasks for the same instrument have both run to their result,
\* the ledger and their instructions are those of some serial execution of
\* the two: each trade was applied to the position its decision was computed
\* from.
C15_SameInstrumentSerializable ==
    \A a, b \in Tasks :
        (/\ a # b
         /\ loc[a].fund = loc[b].fund
         /\ loc[a].res.returned /\ loc[b].res.returned) =>
            SerialOrder(a, b) \/ SerialOrder(b, a)

\* a step of task t leaves every position of another instrument as it was
OtherPositionsKept ==
    \A t \in Tasks :
        pc'[t] # pc[t] =>
            \A c \in (DOMAIN portfolio \cup DOMAIN portfolio') \ {loc[t].fund} :
                /\ c \in DOMAIN portfolio /\ c \in DOMAIN portfolio'
                /\ portfolio'[c] = portfolio[c]

\* a task that raised or fetched nothing has no result in main's list, and
\* a task of another instrument that has passed its write has the
\* instruction and the position it has when it runs alone on the loaded ledger
FailuresAreIsolated ==
    /\ \A i \in 1..Len(results) : results[i].returned
    /\ Len(results) = Cardinality({t \in Tasks : pc[t] = "joined" /\ loc[t].res.returned})
    /\ \A a, b \in Futures :
          (/\ loc[a].fund # loc[b].fund
           /\ pc[b] = "finish" \/ loc[b].res.returned) =>
              LET p0 == ConfirmedPortfolio(loaded)
              IN  /\ InstructionOf(loc[b].out) = InstructionOf(DecisionOn(p0, loc[b]))
                  /\ GetPosition(portfolio, loc[b].fund) =
                        GetPosition(LedgerAfter(p0, loc[b]), loc[b].fund)
                  /\ GetSignalHistory(portfolio, loc[b].fund) =
                        GetSignalHistory(LedgerAfter(p0, loc[b]), loc[b].fund)

\* C17: for distinct instruments, a task for A never changes the position of
\* B # A; an exception in A's task is caught, A is left out of the results,
\* and B's instruction and final position are those of a run in which A did
\* not fail, under every interleaving.
C17_InstrumentsAreIsolated == []FailuresAreIsolated /\ [][OtherPositionsKept]_vars

\* the task of f1 raised after it recorded a buy, the task of f2 recorded a
\* trade and its result is the only one main has collected
C17_Witness ==
    /\ loc["t1"].fund = "f1" /\ loc["t2"].fund = "f2"
    /\ pc["t1"] = "joined" /\ ~loc["t1"].res.returned
    /\ loc["t1"].out.final_amt > 0
    /\ pc["t2"] = "joined" /\ loc["t2"].res.returned
    /\ loc["t2"].out.final_amt > 0
    /\ Len(results) = 1 /\ results[1].code = "f2"
    /\ GetPosition(portfolio, "f2").shares > 0

\* the advisory lookup of task t failed or there was no analyst to ask
AdvisoryFailed(t) ==
    /\ pc[t] \in {"decide", "record", "finish", "done", "joined"}
    /\ loc[t].advisory \in {"raised", "non200", "unparsable", "no_analyst"}

\* C18: whenever the advisory lookup fails or is unavailable, the decision
\* engine receives adjustment = 0 and decision = HOLD, and the decision key is
\* not missing from the result.
C18_AdvisoryFailureMeansHold ==
    \A t \in Tasks :
        AdvisoryFailed(t) =>
            /\ "decision" \in loc[t].ai_res.keys
            /\ loc[t].ai_decision = "HOLD"
            /\ loc[t].ai_adj = [int |-> TRUE, v |-> 0]

----------------------------------------------------------------------------
(* Properties of the decision, checked under SpecDecide *)

Decided(t) == pc[t] \in {"record", "finish", "done"}

\* C2 as stated: with REJECT the tactical score is 0 and the action is hold,
\* with no buy amount and no sell.
C2_RejectHolds ==
    \A t \in Tasks :
        (Decided(t) /\ loc[t].ai_decision = "REJECT") =>
            /\ loc[t].tech.final_score = 0
            /\ loc[t].out.label = "hold"
            /\ loc[t].out.final_amt = 0
            /\ ~loc[t].out.is_sell

\* C2 as amended: with REJECT the tactical score is 0 and nothing is bought;
\* the action is hold when the valuation multiplier is > 1.2 or the lock-in
\* rule applies (shares > 0 and held_days < 7), and sell otherwise.
C2_RejectSellsOrHolds ==
    \A t \in Tasks :
        (Decided(t) /\ loc[t].ai_decision = "REJECT") =>
            /\ loc[t].tech.final_score = 0
            /\ loc[t].out.final_amt = 0
            /\ loc[t].out.label =
                 (IF \/ loc[t].val_mult > 120
                     \/ loc[t].pos.shares > 0 /\ loc[t].pos.held_days < 7
                  THEN "hold" ELSE "sell")
            /\ loc[t].out.is_sell = (loc[t].out.label = "sell")

\* REJECT met a technical score of 85 and the decision is to sell the holding
C2_Witness ==
    /\ Decided("t1")
    /\ loc["t1"].ai_decision = "REJECT"
    /\ loc["t1"].tech.quant_score = 85
    /\ loc["t1"].tech.final_score = 0
    /\ loc["t1"].out.label = "sell"
    /\ loc["t1"].out.sell_val > 0

\* C3: with HOLD no buy is returned: the action is not buy and the buy
\* amount is 0.
C3_HoldNeverBuys ==
    \A t \in Tasks :
        (Decided(t) /\ loc[t].ai_decision = "HOLD") =>
            /\ loc[t].out.label # "buy"
            /\ loc[t].out.final_amt = 0

\* C4: with shares > 0, held_days < 7 and a negative tier multiplier the
\* decision is hold, with buy amount 0 and sell value 0.
C4_LockIn ==
    \A t \in Tasks :
        (/\ Decided(t)
         /\ loc[t].pos.shares > 0
         /\ loc[t].pos.held_days < 7
         /\ loc[t].out.tactical_mult < 0) =>
            /\ loc[t].out.label = "hold"
            /\ loc[t].out.final_amt = 0
            /\ loc[t].out.sell_val = 0
            /\ ~loc[t].out.is_sell

\* a breakdown score on the 6th day of a holding, under an overvaluation
\* that would have accelerated the exit
C4_Witness ==
    /\ Decided("t1")
    /\ loc["t1"].pos.shares > 0
    /\ loc["t1"].pos.held_days = 6
    /\ loc["t1"].out.tactical_mult < 0
    /\ loc["t1"].val_mult < 80
    /\ loc["t1"].out.label = "hold"

VetoedTasksBuyNothing ==
    \A t \in Tasks :
        (Decided(t) /\ loc[t].tech.tech_cro_signal = "VETO") =>
            /\ loc[t].out.final_amt = 0
            /\ loc[t].out.label # "buy"

\* the step in which a task with a VETO reading reaches the ledger records
\* no buy: the ledger is left as it was or its instrument's last record is a sell
VetoedTasksRecordNoBuy ==
    \A t \in Tasks :
        (/\ pc[t] = "record" /\ pc'[t] = "finish"
         /\ loc[t].tech.tech_cro_signal = "VETO"
         /\ portfolio' # portfolio) =>
            LET h == GetSignalHistory(portfolio', loc[t].fund)
            IN  Len(h) > 0 /\ h[Len(h)].s = "S"

\* C5: with risk signal VETO the buy amount is 0 and no buy trade is
\* recorded in the ledger.
C5_VetoNeverBuys == []VetoedTasksBuyNothing /\ [][VetoedTasksRecordNoBuy]_vars

\* a VETO reading met the strongest tier, amplified by the valuation, and
\* the task has passed the ledger
C5_Witness ==
    /\ pc["t1"] = "finish"
    /\ loc["t1"].tech.tech_cro_signal = "VETO"
    /\ loc["t1"].out.tactical_mult = 200
    /\ loc["t1"].val_mult = 150
    /\ loc["t1"].out.final_amt = 0
    /\ portfolio = EmptyPortfolio

\* the step of task t through calculate_position_v13
DecideStep(t) == pc[t] = "decide" /\ pc'[t] = "record"

\* C19 as stated: calculate_position_v13 leaves every field of the reading it
\* receives, and the position snapshot, unchanged.
C19_DecisionIsPure ==
    [][\A t \in Tasks :
          DecideStep(t) => (loc'[t].tech = loc[t].tech /\ loc'[t].pos = loc[t].pos)]_vars

\* the decision writes final_score, ai_adjustment and valuation_desc into the
\* reading, replaces quant_reasons when it has reasons, and leaves the rest
DecisionWritesFourFields ==
    \A t \in Tasks :
        DecideStep(t) =>
            /\ loc'[t].pos = loc[t].pos
            /\ loc'[t].tech.quant_score = loc[t].tech.quant_score
            /\ loc'[t].tech.price = loc[t].tech.price
            /\ loc'[t].tech.tech_cro_signal = loc[t].tech.tech_cro_signal
            /\ loc'[t].tech.final_score \in 0..100
            /\ loc'[t].tech.ai_adjustment = AiAdjInt(loc[t].ai_adj)
            /\ loc'[t].tech.valuation_desc = loc[t].val_desc
            /\ \/ loc'[t].tech.quant_reasons = loc[t].tech.quant_reasons
               \/ loc'[t].tech.quant_reasons # <<>>
            /\ \A f \in {"fund", "strategy_type", "val_mult", "val_desc", "ai_adj",
                          "ai_decision", "res"} : loc'[t][f] = loc[t][f]

\* C19 as amended: calculate_position_v13 leaves the position snapshot and
\* its other arguments unchanged, and of the reading it changes only
\* final_score (the tactical score), ai_adjustment, valuation_desc and, when
\* it has reasons, quant_reasons; quant_score, price and the risk signal stay.
C19_DecisionWritesFourFields == [][DecisionWritesFourFields]_vars

\* a decision wrote a final score that differs from the technical score,
\* with reasons, into the reading
C19_Witness ==
    /\ Decided("t1")
    /\ loc["t1"].tech.final_score # loc["t1"].tech.quant_score
    /\ loc["t1"].tech.quant_score = 85
    /\ loc["t1"].tech.valuation_desc = "undervalued"
    /\ loc["t1"].tech.quant_reasons # <<>>
    /\ loc["t1"].pos.shares > 0

\* what calculate_position_v13 returns to task t when the risk signal of its
\* reading is PASS and every other input is as the task has it
InstructionOnPass(t) ==
    LET l == loc[t]
        d == CalculatePositionV13([l.tech EXCEPT !.tech_cro_signal = "PASS"], l.ai_adj,
                                  l.ai_decision, l.val_mult, l.val_desc, config.base_amt,
                                  config.max_daily, l.pos, l.strategy_type)
    IN  [final_amt |-> d.final_amt, label |-> d.label, is_sell |-> d.is_sell,
         sell_val |-> d.sell_val]

Instruction(t) ==
    [final_amt |-> loc[t].out.final_amt, label |-> loc[t].out.label,
     is_sell |-> loc[t].out.is_sell, sell_val |-> loc[t].out.sell_val]

\* C20: for all other inputs equal, a reading with WARN yields exactly the
\* action, buy amount and sell value of one with PASS, and a reading with
\* VETO yields the result of PASS whenever the blended multiplier is <= 0.
C20_RiskSignalOnlyBlocksEntries ==
    \A t \in Tasks :
        Decided(t) =>
            /\ loc[t].tech.tech_cro_signal = "WARN" => Instruction(t) = InstructionOnPass(t)
            /\ (/\ loc[t].tech.tech_cro_signal = "VETO"
                /\ BlendMult(loc[t].out.tactical_mult, loc[t].val_mult,
                             loc[t].strategy_type) <= 0) =>
                    Instruction(t) = InstructionOnPass(t)

\* a reading with WARN met the strongest tier and the full amount is bought
C20_Witness ==
    /\ Decided("t1")
    /\ loc["t1"].tech.tech_cro_signal = "WARN"
    /\ loc["t1"].out.tactical_mult = 200
    /\ loc["t1"].out.label = "buy"
    /\ loc["t1"].out.final_amt > 0

\* C6: the buy amount lies in [0, max_daily_amount].
C6_BuyAmountWithinDailyCap ==
    \A t \in Tasks :
        Decided(t) =>
            /\ loc[t].out.final_amt >= 0
            /\ loc[t].out.final_amt * Grid <= config.max_daily

\* the multiplier 2.0 x 1.5 asked for more than the daily cap
C6_Witness ==
    /\ Decided("t1")
    /\ loc["t1"].out.final_mult = 30000
    /\ IntOf(config.base_amt * 3, Grid) * Grid > config.max_daily
    /\ loc["t1"].out.final_amt > 0
    /\ loc["t1"].out.final_amt = IntOf(config.max_daily, Grid)

\* C7: the sell value is shares x price x min(|multiplier|, 1.0), and so
\* never exceeds shares x price of the position it was computed from.
C7_SellValueWithinHolding ==
    \A t \in Tasks :
        Decided(t) =>
            /\ loc[t].out.sell_val <= loc[t].pos.shares * loc[t].tech.price
            /\ loc[t].out.is_sell =>
                 loc[t].out.sell_val * 10000 =
                    loc[t].pos.shares * loc[t].tech.price
                        * (IF Abs(loc[t].out.final_mult) <= 10000
                           THEN Abs(loc[t].out.final_mult) ELSE 10000)

\* the multiplier -1.5 sells a holding past its lock-in
C7_Witness ==
    /\ Decided("t1")
    /\ loc["t1"].out.final_mult = -15000
    /\ loc["t1"].pos.shares > 0
    /\ loc["t1"].out.is_sell
    /\ loc["t1"].out.sell_val = loc["t1"].pos.shares * loc["t1"].tech.price
    /\ loc["t1"].out.sell_val > 0

----------------------------------------------------------------------------
(* C21: the tier and the valuation blend *)

\* the tier the score bands name, in percent
TierOfBand(score) ==
    CASE score \in 85..100 -> 200
      [] score \in 70..84 -> 100
      [] score \in 60..69 -> 50
      [] score \in 26..59 -> 0
      [] score \in 0..25 -> -100

\* the blend the rules name, in units of 1/10000
BlendOfRules(tier, val_mult, strategy_type) ==
    CASE tier > 0 /\ val_mult > 100 -> tier * val_mult
      [] tier > 0 /\ val_mult < 50 -> 0
      [] tier < 0 /\ val_mult > 120 -> 0
      [] tier < 0 /\ val_mult < 80 -> (tier * 100 * 3) \div 2
      [] tier = 0 /\ val_mult >= 150 /\ strategy_type \in {"core", "dividend"} -> 5000
      [] OTHER -> tier * 100

\* C21: once a task has decided, the tier it computed is the one the score
\* bands name for its tactical score (2.0, 1.0, 0.5 from 85, 70 and 60 up,
\* -1.0 up to 25, 0 between), and the multiplier it had before the risk gate
\* is that tier blended with the valuation multiplier by the rules: a
\* positive tier times the valuation multiplier above 1.0 and 0 below 0.5, a
\* negative tier 0 above 1.2 and times 1.5 below 0.8, a zero tier 0.5 exactly
\* for a valuation multiplier of 1.5 or more with a core or dividend strategy.
C21_BlendFollowsTiersAndValuation ==
    \A t \in Tasks :
        Decided(t) =>
            /\ loc[t].tech.final_score \in 0..100
            /\ loc[t].out.tactical_mult = TierOfBand(loc[t].tech.final_score)
            /\ loc[t].out.blended_mult =
                 BlendOfRules(TierOfBand(loc[t].tech.final_score), loc[t].val_mult,
                              loc[t].strategy_type)

\* a score of 59 with a valuation multiplier of 1.5 and a core strategy: the
\* zero tier became 0.5 and the task bought
C21_Witness ==
    /\ pc["t1"] = "done"
    /\ loc["t1"].tech.final_score = 59
    /\ loc["t1"].val_mult = 150
    /\ loc["t1"].strategy_type = "core"
    /\ loc["t1"].out.tactical_mult = 0
    /\ loc["t1"].out.blended_mult = 5000
    /\ loc["t1"].out.label = "buy"

----------------------------------------------------------------------------
(* C22: the risk signal *)

\* a task whose reading calculate_indicators computed
Computed(t) == pc[t] = "value" /\ loc[t].ind.computed

\* C22: the risk signal of a computed reading is VETO exactly when the
\* volume ratio (last volume, projected where it was, over the 5-bar
\* average) is below 0.6 or RSI is above 85, WARN exactly when the weekly
\* trend is DOWN and neither holds, PASS otherwise; the reason is that of
\* the first rule, in the order weekly trend, liquidity, RSI, that reached
\* this level.
C22_RiskSignalPrecedence ==
    \A t \in Tasks :
        Computed(t) =>
            LET d == loc[t].data
                dry == VolRatioBelow(d.volume, 60)
                hot == d.rsi > 8500
                down == d.trend_status = "DOWN"
            IN  /\ (loc[t].ind.tech_cro_signal = "VETO") = (dry \/ hot)
                /\ (loc[t].ind.tech_cro_signal = "WARN") = (down /\ ~dry /\ ~hot)
                /\ (loc[t].ind.tech_cro_signal = "PASS") = (~down /\ ~dry /\ ~hot)
                /\ loc[t].ind.tech_cro_comment =
                     (CASE dry -> "liquidity"
                        [] ~dry /\ hot -> "overbought"
                        [] ~dry /\ ~hot /\ down -> "weekly-down"
                        [] OTHER -> "normal")
                /\ loc[t].tech.tech_cro_signal = loc[t].ind.tech_cro_signal

\* RSI 90, volume ratio 1.0, weekly trend UP: VETO, citing the overbought rule
C22_Witness ==
    /\ Computed("t1")
    /\ loc["t1"].data.rsi = 9000
    /\ loc["t1"].ind.vol_ratio = 100
    /\ loc["t1"].data.trend_status = "UP"
    /\ loc["t1"].ind.tech_cro_signal = "VETO"
    /\ loc["t1"].ind.tech_cro_comment = "overbought"

----------------------------------------------------------------------------
(* C23: the intraday volume projection *)

\* elapsed trading minutes at minute m of the day, by sessions
ElapsedBySession(m) ==
    CASE m \in 0..(9 * 60 + 29) -> 0
      [] m \in (9 * 60 + 30)..(11 * 60 + 30) -> m - (9 * 60 + 30)
      [] m \in (11 * 60 + 31)..(12 * 60 + 59) -> 120
      [] m \in (13 * 60)..(15 * 60) -> 120 + (m - 13 * 60)
      [] OTHER -> 240

\* the series task t holds is projected in this step
Projects(t) ==
    /\ pc[t] = "analyze"
    /\ pc'[t] = "value"
    /\ loc[t].data.len >= 30

\* the percent of the bias correction
BiasPct(elapsed) == IF elapsed < 120 THEN 90 ELSE 105

\* the conditions of a projection
ProjectionDue(data) ==
    /\ data.last_is_today
    /\ data.ref_min < 15 * 60
    /\ ElapsedBySession(data.ref_min) > 15

\* nothing but the volume of the last bar has changed
OnlyLastVolume(before, after) ==
    /\ \A i \in 1..4 : after.volume[i] = before.volume[i]
    /\ [after EXCEPT !.volume = before.volume] = before

\* the elapsed minutes are those of the sessions, within 0..240 and never
\* decreasing over the day
ElapsedIsSessionTime ==
    /\ \A m \in 0..(24 * 60 - 1) :
            /\ CalculateTradeMinutes(m) = ElapsedBySession(m)
            /\ CalculateTradeMinutes(m) \in 0..240
    /\ \A m \in 0..(24 * 60 - 2) : CalculateTradeMinutes(m) <= CalculateTradeMinutes(m + 1)

\* the new last volume is exactly volume x 240 / elapsed x bias
ProjectionIsExactProduct ==
    \A t \in Tasks :
        Projects(t) =>
            LET before == loc[t].data
                after == loc'[t].data
                elapsed == ElapsedBySession(before.ref_min)
            IN  /\ OnlyLastVolume(before, after)
                /\ ProjectionDue(before) =>
                        after.volume[5] * elapsed * 100
                            = before.volume[5] * 240 * BiasPct(elapsed)
                /\ ~ProjectionDue(before) => after.volume[5] = before.volume[5]

\* C23 as stated: the projection changes only the last volume, only when the
\* last bar is dated on the reference day, the reference time is before
\* 15:00 and more than 15 trading minutes have elapsed, and the new volume
\* is volume x 240 / elapsed x 0.9 (elapsed < 120) or x 1.05.
C23_ProjectionIsExactProduct == [][ProjectionIsExactProduct]_vars

\* the new last volume is that product cut to a whole number: at most the
\* product, and not a whole unit below it unless the product is whole
ProjectionIsTruncatedProduct ==
    \A t \in Tasks :
        Projects(t) =>
            LET before == loc[t].data
                after == loc'[t].data
                elapsed == ElapsedBySession(before.ref_min)
                n == before.volume[5] * 240 * BiasPct(elapsed)
                d == elapsed * 100
            IN  /\ OnlyLastVolume(before, after)
                /\ ProjectionDue(before) =>
                        /\ after.volume[5] * d <= n
                        /\ n <= (after.volume[5] + 1) * d
                        /\ after.volume[5] >= 0
                /\ ~ProjectionDue(before) => after.volume[5] = before.volume[5]

\* C23, amended: as above, but the new volume is int() of the product: the
\* product cut to a whole number, which for a whole product may be the
\* number below it.
C23_ProjectionIsTruncatedProduct ==
    ElapsedIsSessionTime /\ [][ProjectionIsTruncatedProduct]_vars

\* a series read at 09:47, 17 trading minutes into the day of its last bar:
\* the last volume 13 became int(13 x 240 / 17 x 0.9) = 165
C23_Witness ==
    /\ pc["t1"] = "value"
    /\ loc["t1"].data.len = 30
    /\ loc["t1"].data.last_is_today
    /\ loc["t1"].data.ref_min = 9 * 60 + 47
    /\ loc["t1"].data.volume = <<20, 20, 20, 20, 165>>

----------------------------------------------------------------------------
(* C24: durability of the ledger *)

\* C24: at every instant the persisted document is a complete serialization
\* of a ledger, and once an operation has returned it is the serialization
\* of the ledger in memory: every mutation rewrote the whole document, by
\* an atomic replace.
C24_PersistedDocumentIsLedger ==
    /\ disk.complete
    /\ disk.doc = portfolio

----------------------------------------------------------------------------
(* C25: bounded retry and the fallback of the lookups *)

\* the number of leading attempts that raise, up to n
RECURSIVE LeadingFailures(_, _)
LeadingFailures(attempts, n) ==
    IF n = 0 \/ attempts = <<>> \/ ~Head(attempts).raises THEN 0
    ELSE 1 + LeadingFailures(Tail(attempts), n - 1)

\* a wrapped call made at most retries invocations, returned what the first
\* invocation that did not raise returned, with no invocation after it, and
\* raised after the last of retries invocations that all raised
RetryIsBounded ==
    \A t \in Tasks :
        pc[t] = "called" =>
            LET w == loc[t].wrapped
                k == LeadingFailures(w.attempts, w.retries)
            IN  /\ w.calls <= w.retries
                /\ k < w.retries =>
                        /\ w.status = "returned"
                        /\ w.calls = k + 1
                        /\ w.value = w.attempts[k + 1].value
                /\ (k = w.retries /\ w.retries > 0) =>
                        /\ w.status = "raised"
                        /\ w.calls = w.retries

\* the valuation lookup of task t got nothing from the source, or raised
ValuationFailed(t) ==
    /\ loc[t].valuation.done
    /\ \/ loc[t].valuation.raised
       \/ loc[t].index_name \in DOMAIN IndexMap /\ loc[t].valuation.fetched.kind = "none"

\* a failed lookup leaves its neutral value with the task, which goes on
FailedLookupsFallBack ==
    \A t \in Tasks :
        /\ pc[t] # "failed"
        /\ loc[t].valuation.calls <= 2
        /\ ValuationFailed(t) => loc[t].val_mult = 100
        /\ AdvisoryFailed(t) =>
                /\ loc[t].ai_adj = [int |-> TRUE, v |-> 0]
                /\ loc[t].ai_decision \in {"HOLD", "PASS"}
        /\ (pc[t] \in {"done", "joined"} /\ loc[t].valuation.done) => loc[t].res.returned

----------------------------------------------------------------------------
(* Properties of the holding window, checked under SpecRunThrice *)

\* C26: between the buy that takes an instrument's shares from 0 to positive
\* and any later recorded sell that reduces its shares, confirm_trades has
\* run at least 6 times.  held_days is 1 after that buy and grows by one
\* with every confirm_trades while shares are held, so the position a sell
\* reduces has held_days >= 7.
C26_SellReducesOnlyAfterHoldingWindow ==
    [][\A c \in DOMAIN portfolio :
          portfolio'[c].shares < portfolio[c].shares => portfolio[c].held_days >= 7]_vars

----------------------------------------------------------------------------
(* Ledger and results of a run, checked under SpecRun *)

\* task t has left the block of lines 368-371 with a trade written to the ledger
RecordedTrade(t) ==
    /\ pc[t] = "finish"
    /\ loc[t].tech.price > 0
    /\ loc[t].out.final_amt > 0 \/ loc[t].out.is_sell

\* C27: a pipeline that has recorded a trade in the ledger returns a result
\* with the instruction; a pipeline that takes the failure path (returns no
\* result) has recorded no trade.
C27_FailedPipelineRecordedNothing ==
    [][\A t \in Tasks : (pc[t] # "failed" /\ pc'[t] = "failed") => ~RecordedTrade(t)]_vars

\* the step of task t calls the tracker: get_position at line 341,
\* record_signal and add_trade at lines 369-371, get_signal_history at line 385
CallsTracker(t) ==
    \/ pc[t] = "read" /\ pc'[t] = "advise"
    \/ pc[t] = "record" /\ pc'[t] = "finish"
    \/ pc[t] = "finish" /\ pc'[t] = "done"

\* C28: every read or write of the ledger a worker makes (get_position,
\* record_signal, add_trade, get_signal_history) happens while that worker
\* holds tracker_lock.
C28_TrackerCalledUnderLock ==
    [][\A t \in Tasks : CallsTracker(t) => tracker_lock = t]_vars

\* the step of task t carries out a sell decided on a position without shares
SellsNothing(t) ==
    /\ pc[t] = "record" /\ pc'[t] = "finish"
    /\ loc[t].out.is_sell
    /\ loc[t].pos.shares = 0

\* C29: a sell instruction resolved for an instrument whose position has zero
\* shares, an instrument never traded included, leaves the ledger unchanged:
\* no position record is created and no history record is appended.
C29_SellOfNothingKeepsLedger ==
    [][\A t \in Tasks : SellsNothing(t) => portfolio' = portfolio]_vars

----------------------------------------------------------------------------
(* Properties of the valuation bands, checked under SpecValuation *)

\* task t has looked up the valuation of a core fund and the lookup computed
\* a percentile
CoreValued(t) ==
    /\ loc[t].valuation.done /\ ~loc[t].valuation.raised
    /\ loc[t].strategy_type = "core"
    /\ loc[t].valuation.fetched.kind = "series"
    /\ loc[t].valuation.fetched.len >= 250

\* the multiplier, in percent, of the band the percentile of h lies in
LabelledBand(h) ==
    IF PercentileBelow(h, 20) THEN 150
    ELSE IF PercentileBelow(h, 40) THEN 120
    ELSE IF PercentileAbove(h, 90) THEN 0
    ELSE IF PercentileAbove(h, 80) THEN 50
    ELSE 100

\* C30: for a core fund the multiplier is that of the labelled band of the
\* percentile (below 0.20: 1.5, below 0.40: 1.2, above 0.90: 0.0, above
\* 0.80: 0.5, else 1.0); every multiplier is >= 0; a failed lookup or a
\* missing index gives 1.0.
C30_CoreBandsAsLabelled ==
    \A t \in Tasks :
        /\ loc[t].val_mult >= 0
        /\ CoreValued(t) => loc[t].val_mult = LabelledBand(loc[t].valuation.fetched)
        /\ (loc[t].valuation.done /\ ~CoreValued(t) /\ loc[t].strategy_type = "core") =>
                loc[t].val_mult = 100

====
